---- MODULE Spec2Model ----
(***************************************************************************)
(* IVD monitor: the enrichment and idempotent ingestion engine.            *)
(*                                                                         *)
(* A Python str is a sequence of characters; a character is a one-letter   *)
(* string, and a character outside ASCII is written by its code point      *)
(* ("u8d22").  Python's None is the value None below.                      *)
(***************************************************************************)
EXTENDS Integers, Sequences, FiniteSets, TLC

\* ------------------------------------------------------------------------
\* Python values
\* ------------------------------------------------------------------------

None ==
    <<"None">>

\* `not value` for a str-or-None value.
Falsy(value) ==
    value = None \/ value = <<>>

Truthy(value) ==
    ~Falsy(value)

Whitespace ==
    {" ", "\t", "\n", "\r"}

UpperToLower ==
    [c \in {"A", "B", "C", "D", "E", "F", "G", "H", "I", "J", "K", "L", "M", "N", "O", "P", "Q", "R", "S", "T", "U", "V", "W", "X", "Y", "Z"} |->
        CASE c = "A" -> "a"
          [] c = "B" -> "b"
          [] c = "C" -> "c"
          [] c = "D" -> "d"
          [] c = "E" -> "e"
          [] c = "F" -> "f"
          [] c = "G" -> "g"
          [] c = "H" -> "h"
          [] c = "I" -> "i"
          [] c = "J" -> "j"
          [] c = "K" -> "k"
          [] c = "L" -> "l"
          [] c = "M" -> "m"
          [] c = "N" -> "n"
          [] c = "O" -> "o"
          [] c = "P" -> "p"
          [] c = "Q" -> "q"
          [] c = "R" -> "r"
          [] c = "S" -> "s"
          [] c = "T" -> "t"
          [] c = "U" -> "u"
          [] c = "V" -> "v"
          [] c = "W" -> "w"
          [] c = "X" -> "x"
          [] c = "Y" -> "y"
          [] c = "Z" -> "z"]

MapChar(table, c) ==
    IF c \in DOMAIN table THEN table[c] ELSE c

LowerChar(c) ==
    MapChar(UpperToLower, c)

\* str.lower()
Lower(s) ==
    [i \in 1..Len(s) |-> LowerChar(s[i])]

RECURSIVE LStrip(_)
LStrip(s) ==
    IF s # <<>> /\ Head(s) \in Whitespace THEN LStrip(Tail(s)) ELSE s

RECURSIVE RStrip(_)
RStrip(s) ==
    IF s # <<>> /\ s[Len(s)] \in Whitespace THEN RStrip(SubSeq(s, 1, Len(s) - 1)) ELSE s

\* str.strip()
Strip(s) ==
    RStrip(LStrip(s))

\* `part in text` for two str values.
Contains(text, part) ==
    \E i \in 0..(Len(text) - Len(part)) : SubSeq(text, i + 1, i + Len(part)) = part

\* sep.join(parts)
RECURSIVE Join(_, _)
Join(sep, parts) ==
    IF parts = <<>> THEN <<>>
    ELSE IF Len(parts) = 1 THEN parts[1]
    ELSE parts[1] \o sep \o Join(sep, Tail(parts))

\* The range of a sequence.
Range(seq) ==
    {seq[i] : i \in 1..Len(seq)}

\* A metadata value carries its Python type: <<"none">>, <<"str", s>>,
\* <<"list", items>>, <<"dict", pairs>>, <<"int", n>>.
PyNone ==
    <<"none">>

PyStr(s) ==
    <<"str", s>>

PyList(l) ==
    <<"list", l>>

PyDict(f) ==
    <<"dict", f>>

IsDict(v) ==
    v[1] = "dict"

IsStr(v) ==
    v[1] = "str"

IsList(v) ==
    v[1] = "list"

EmptyDict ==
    PyDict(<<>>)

\* The keys of a dict, which is a sequence of <<key, value>> in insertion order.
DictKeys(d) ==
    {d[2][i][1] : i \in 1..Len(d[2])}

\* metadata.get(key): the value under key, PyNone when absent.
DictGet(d, key) ==
    LET hits == {i \in 1..Len(d[2]) : d[2][i][1] = key}
    IN  IF hits = {} THEN PyNone ELSE d[2][CHOOSE i \in hits : TRUE][2]

\* ------------------------------------------------------------------------
\* Category classifier (categorization.py)
\* ------------------------------------------------------------------------

CATEGORY_FINANCIAL ==
    <<"f","i","n","a","n","c","i","a","l","_","r","e","p","o","r","t","s">>

CATEGORY_PRODUCT_LAUNCH ==
    <<"p","r","o","d","u","c","t","_","l","a","u","n","c","h","e","s">>

CATEGORY_BIDDING ==
    <<"b","i","d","d","i","n","g","_","t","e","n","d","e","r","i","n","g">>

CATEGORY_NHSA_POLICY ==
    <<"n","h","s","a","_","p","o","l","i","c","y">>

CATEGORY_NHC_POLICY ==
    <<"n","h","c","_","p","o","l","i","c","y">>

CATEGORY_INDUSTRY_MEDIA ==
    <<"i","n","d","u","s","t","r","y","_","m","e","d","i","a">>

CATEGORY_UNKNOWN ==
    <<"u","n","k","n","o","w","n">>

ALL_CATEGORIES ==
    << CATEGORY_FINANCIAL, CATEGORY_PRODUCT_LAUNCH, CATEGORY_BIDDING, CATEGORY_NHSA_POLICY, CATEGORY_NHC_POLICY, CATEGORY_INDUSTRY_MEDIA >>

\* The closed enumeration of categories: the six classes and the fallback.
CategoryEnum ==
    Range(ALL_CATEGORIES) \cup {CATEGORY_UNKNOWN}

TITLE_WEIGHT ==
    5

SUMMARY_WEIGHT ==
    3

CONTENT_WEIGHT ==
    1

CATEGORY_SYNONYMS ==
    {
       <<<<"f","i","n","a","n","c","e">>, CATEGORY_FINANCIAL>>,
       <<<<"f","i","n","a","n","c","i","a","l">>, CATEGORY_FINANCIAL>>,
       <<<<"f","i","n","a","n","c","i","a","l"," ","r","e","p","o","r","t">>, CATEGORY_FINANCIAL>>,
       <<<<"f","i","n","a","n","c","i","a","l"," ","r","e","p","o","r","t","s">>, CATEGORY_FINANCIAL>>,
       <<<<"f","i","n","a","n","c","i","a","l","_","r","e","p","o","r","t">>, CATEGORY_FINANCIAL>>,
       <<<<"f","i","n","a","n","c","i","a","l","_","r","e","p","o","r","t","s">>, CATEGORY_FINANCIAL>>,
       <<<<"u4e1a","u7ee9">>, CATEGORY_FINANCIAL>>,
       <<<<"u8d22","u52a1">>, CATEGORY_FINANCIAL>>,
       <<<<"u8d22","u52a1","u62a5","u544a">>, CATEGORY_FINANCIAL>>,
       <<<<"u8d22","u62a5">>, CATEGORY_FINANCIAL>>,
       <<<<"u8d22","u62a5","u8d44","u8baf">>, CATEGORY_FINANCIAL>>,
       <<<<"a","p","p","r","o","v","a","l">>, CATEGORY_PRODUCT_LAUNCH>>,
       <<<<"l","a","u","n","c","h">>, CATEGORY_PRODUCT_LAUNCH>>,
       <<<<"p","r","o","d","u","c","t">>, CATEGORY_PRODUCT_LAUNCH>>,
       <<<<"p","r","o","d","u","c","t"," ","l","a","u","n","c","h">>, CATEGORY_PRODUCT_LAUNCH>>,
       <<<<"p","r","o","d","u","c","t","_","l","a","u","n","c","h">>, CATEGORY_PRODUCT_LAUNCH>>,
       <<<<"u4ea7","u54c1","u4e0a","u5e02">>, CATEGORY_PRODUCT_LAUNCH>>,
       <<<<"u65b0","u54c1">>, CATEGORY_PRODUCT_LAUNCH>>,
       <<<<"u83b7","u6279">>, CATEGORY_PRODUCT_LAUNCH>>,
       <<<<"b","i","d","d","i","n","g">>, CATEGORY_BIDDING>>,
       <<<<"t","e","n","d","e","r">>, CATEGORY_BIDDING>>,
       <<<<"u62db","u6807">>, CATEGORY_BIDDING>>,
       <<<<"u62db","u6807","u91c7","u8d2d">>, CATEGORY_BIDDING>>,
       <<<<"u91c7","u8d2d">>, CATEGORY_BIDDING>>,
       <<<<"u96c6","u4e2d","u91c7","u8d2d">>, CATEGORY_BIDDING>>,
       <<<<"m","e","d","i","c","a","l"," ","i","n","s","u","r","a","n","c","e">>, CATEGORY_NHSA_POLICY>>,
       <<<<"m","e","d","i","c","a","l"," ","s","e","c","u","r","i","t","y">>, CATEGORY_NHSA_POLICY>>,
       <<<<"n","h","s","a">>, CATEGORY_NHSA_POLICY>>,
       <<<<"u533b","u4fdd">>, CATEGORY_NHSA_POLICY>>,
       <<<<"u533b","u4fdd","u5c40">>, CATEGORY_NHSA_POLICY>>,
       <<<<"u533b","u4fdd","u653f","u7b56">>, CATEGORY_NHSA_POLICY>>,
       <<<<"h","e","a","l","t","h"," ","c","o","m","m","i","s","s","i","o","n">>, CATEGORY_NHC_POLICY>>,
       <<<<"n","h","c">>, CATEGORY_NHC_POLICY>>,
       <<<<"u536b","u5065","u59d4">>, CATEGORY_NHC_POLICY>>,
       <<<<"u536b","u751f","u5065","u5eb7","u59d4">>, CATEGORY_NHC_POLICY>>,
       <<<<"a","n","a","l","y","s","i","s">>, CATEGORY_INDUSTRY_MEDIA>>,
       <<<<"i","n","d","u","s","t","r","y">>, CATEGORY_INDUSTRY_MEDIA>>,
       <<<<"i","n","d","u","s","t","r","y"," ","m","e","d","i","a">>, CATEGORY_INDUSTRY_MEDIA>>,
       <<<<"u5a92","u4f53">>, CATEGORY_INDUSTRY_MEDIA>>,
       <<<<"u5e02","u573a","u5206","u6790">>, CATEGORY_INDUSTRY_MEDIA>>,
       <<<<"u884c","u4e1a","u5a92","u4f53">>, CATEGORY_INDUSTRY_MEDIA>>
    }

\* _build_alias_lookup: every synonym and every canonical name, lower-cased,
\* maps to its canonical name.
AliasLookup ==
    {<<Lower(p[1]), p[2]>> : p \in CATEGORY_SYNONYMS}
        \cup {<<Lower(ALL_CATEGORIES[i]), ALL_CATEGORIES[i]>> : i \in 1..Len(ALL_CATEGORIES)}

\* _alias_lookup.get(normalized)
AliasGet(lookup, normalized) ==
    LET hits == {p \in lookup : p[1] = normalized}
    IN  IF hits = {} THEN None ELSE (CHOOSE p \in hits : TRUE)[2]

\* normalize_category_name on a str-or-None value.
normalize_category_name(category) ==
    IF Falsy(category) THEN None
    ELSE AliasGet(AliasLookup, Lower(Strip(category)))

BuiltinSourceRules ==
    <<
       <<<<"c","n","i","n","f","o">>, CATEGORY_FINANCIAL>>,
       <<<<"e","a","s","t","m","o","n","e","y">>, CATEGORY_FINANCIAL>>,
       <<<<"u4e1c","u65b9","u8d22","u5bcc">>, CATEGORY_FINANCIAL>>,
       <<<<"u5de8","u6f6e","u8d44","u8baf">>, CATEGORY_FINANCIAL>>,
       <<<<"i","n","v","e","s","t","o","r">>, CATEGORY_FINANCIAL>>,
       <<<<"f","i","n","a","n","c","i","a","l">>, CATEGORY_FINANCIAL>>,
       <<<<"n","h","s","a">>, CATEGORY_NHSA_POLICY>>,
       <<<<"u533b","u4fdd","u5c40">>, CATEGORY_NHSA_POLICY>>,
       <<<<"u533b","u7597","u4fdd","u969c","u5c40">>, CATEGORY_NHSA_POLICY>>,
       <<<<"n","h","c">>, CATEGORY_NHC_POLICY>>,
       <<<<"u536b","u5065","u59d4">>, CATEGORY_NHC_POLICY>>,
       <<<<"u536b","u751f","u5065","u5eb7","u59d4">>, CATEGORY_NHC_POLICY>>,
       <<<<"u62db","u6807">>, CATEGORY_BIDDING>>,
       <<<<"u91c7","u8d2d">>, CATEGORY_BIDDING>>,
       <<<<"u96c6","u91c7">>, CATEGORY_BIDDING>>,
       <<<<"b","i","d","d","i","n","g">>, CATEGORY_BIDDING>>,
       <<<<"t","e","n","d","e","r">>, CATEGORY_BIDDING>>
    >>

BuiltinKeywordRules ==
    <<
       <<CATEGORY_FINANCIAL, <<
          <<<<"u8d22","u62a5">>, <<"u5e74","u62a5">>, <<"u5b63","u62a5">>, <<"u4e1a","u7ee9">>, <<"u8425","u6536">>, <<"u5229","u6da6">>, <<"u51c0","u5229">>>>,
          <<<<"u8d22","u52a1","u62a5","u544a">>, <<"u7ecf","u8425","u62a5","u544a">>, <<"u80a1","u4e1c","u5927","u4f1a">>, <<"u6295","u8d44","u8005">>>>,
          <<<<"f","i","n","a","n","c","i","a","l","\\s+","r","e","p","o","r","t">>, <<"e","a","r","n","i","n","g","s">>, <<"r","e","v","e","n","u","e">>, <<"p","r","o","f","i","t">>>>,
          <<<<"u516c","u544a",".*","u4e1a","u7ee9">>, <<"u62ab","u9732",".*","u8d22","u52a1">>>> >> >>,
       <<CATEGORY_PRODUCT_LAUNCH, <<
          <<<<"u4e0a","u5e02">>, <<"u65b0","u54c1">>, <<"u63a8","u51fa">>, <<"u95ee","u4e16">>>>,
          <<<<"u83b7","u6279">>, <<"u6279","u51c6">>, <<"u6ce8","u518c","u8bc1">>, <<"N","M","P","A">>, <<"F","D","A">>>>,
          <<<<"u4ea7","u54c1",".*","u4e0a","u5e02">>, <<"u65b0","u4ea7","u54c1">>, <<"u4ea7","u54c1","u53d1","u5e03">>>>,
          <<<<"l","a","u","n","c","h">>, <<"a","p","p","r","o","v","a","l">>, <<"c","l","e","a","r","a","n","c","e">>>> >> >>,
       <<CATEGORY_BIDDING, <<
          <<<<"u62db","u6807">>, <<"u4e2d","u6807">>, <<"u6295","u6807">>, <<"u91c7","u8d2d">>>>,
          <<<<"u96c6","u91c7">>, <<"u96c6","u4e2d","u91c7","u8d2d">>, <<"u5e26","u91cf","u91c7","u8d2d">>>>,
          <<<<"u4e2d","u6807",".*","u516c","u544a">>, <<"u62db","u6807",".*","u516c","u544a">>, <<"u6210","u4ea4",".*","u516c","u544a">>>>,
          <<<<"b","i","d","d","i","n","g">>, <<"t","e","n","d","e","r">>, <<"p","r","o","c","u","r","e","m","e","n","t">>>> >> >>,
       <<CATEGORY_NHSA_POLICY, <<
          <<<<"u533b","u4fdd","u5c40">>, <<"u533b","u7597","u4fdd","u969c","u5c40">>>>,
          <<<<"u533b","u4fdd",".*","u653f","u7b56">>, <<"u533b","u4fdd",".*","u76ee","u5f55">>, <<"u533b","u4fdd",".*","u652f","u4ed8">>>>,
          <<<<"u533b","u4fdd",".*","u8c08","u5224">>, <<"u533b","u4fdd",".*","u51c6","u5165">>, <<"u533b","u4fdd",".*","u4ef7","u683c">>>>,
          <<<<"D","R","G">>, <<"D","I","P">>, <<"u533b","u4fdd",".*","u57fa","u91d1">>>> >> >>,
       <<CATEGORY_NHC_POLICY, <<
          <<<<"u536b","u5065","u59d4">>, <<"u536b","u751f","u5065","u5eb7","u59d4">>>>,
          <<<<"u536b","u751f",".*","u653f","u7b56">>, <<"u533b","u7597",".*","u7ba1","u7406">>, <<"u533b","u9662",".*","u7ba1","u7406">>>>,
          <<<<"u4e34","u5e8a",".*","u6307","u5357">>, <<"u8bca","u7597",".*","u89c4","u8303">>, <<"u6280","u672f",".*","u6807","u51c6">>>>,
          <<<<"u75ab","u60c5",".*","u9632","u63a7">>, <<"u516c","u5171","u536b","u751f">>>> >> >>,
       <<CATEGORY_INDUSTRY_MEDIA, <<
          <<<<"u884c","u4e1a",".*","u5206","u6790">>, <<"u5e02","u573a",".*","u5206","u6790">>, <<"u8d8b","u52bf",".*","u5206","u6790">>>>,
          <<<<"u4e13","u5bb6",".*","u89e3","u8bfb">>, <<"u6df1","u5ea6",".*","u89e3","u6790">>, <<"u89c2","u5bdf">>>>,
          <<<<"u884c","u4e1a",".*","u52a8","u6001">>, <<"u5e02","u573a",".*","u52a8","u6001">>>> >> >>
    >>

\* A classifier is built from custom_rules: `sources`, a sequence of
\* <<substring, category>>, and `keywords`, a sequence of <<category, patterns>>.
NoCustomRules ==
    [sources |-> <<>>, keywords |-> <<>>]

\* dict.update of one entry: an existing key keeps its place and takes the new
\* value, a new key goes last.
DictPut(pairs, key, value) ==
    IF \E i \in 1..Len(pairs) : pairs[i][1] = key
    THEN [i \in 1..Len(pairs) |-> IF pairs[i][1] = key THEN <<key, value>> ELSE pairs[i]]
    ELSE Append(pairs, <<key, value>>)

RECURSIVE UpdateAll(_, _)
UpdateAll(pairs, more) ==
    IF more = <<>> THEN pairs
    ELSE UpdateAll(DictPut(pairs, more[1][1], more[1][2]), Tail(more))

\* _init_rules: source_rules after the custom sources are merged in.
SourceRules(custom_rules) ==
    UpdateAll(BuiltinSourceRules, custom_rules.sources)

\* One custom keyword entry: extend the category's list, or add the category.
ExtendKeywords(pairs, category, patterns) ==
    IF \E i \in 1..Len(pairs) : pairs[i][1] = category
    THEN [i \in 1..Len(pairs) |->
            IF pairs[i][1] = category THEN <<category, pairs[i][2] \o patterns>> ELSE pairs[i]]
    ELSE Append(pairs, <<category, patterns>>)

RECURSIVE ExtendAll(_, _)
ExtendAll(pairs, more) ==
    IF more = <<>> THEN pairs
    ELSE ExtendAll(ExtendKeywords(pairs, more[1][1], more[1][2]), Tail(more))

\* _init_rules: keyword_rules after the custom keywords are merged in.
KeywordRules(custom_rules) ==
    ExtendAll(BuiltinKeywordRules, custom_rules.keywords)

\* A pattern is a sequence of alternatives; an alternative is a sequence of
\* atoms: a literal character, ".*" or "\\s+".  Matching ignores case.
\* MatchAtoms: the position after the match of atoms[i..] at position pos
\* (1-based, Len(text) + 1 is the end), or 0 when there is none.
RECURSIVE MatchAtoms(_, _, _, _)
RECURSIVE MatchDown(_, _, _, _, _)
MatchAtoms(atoms, i, text, pos) ==
    IF i > Len(atoms) THEN pos
    ELSE IF atoms[i] = ".*"
    THEN LET stops == {k \in pos..Len(text) : text[k] = "\n"}
             farthest == IF stops = {} THEN Len(text) + 1
                     ELSE CHOOSE k \in stops : \A j \in stops : k <= j
         IN  MatchDown(atoms, i + 1, text, farthest, pos)
    ELSE IF atoms[i] = "\\s+"
    THEN LET blanks == {k \in pos..(Len(text) + 1) :
                            \A j \in pos..(k - 1) : text[j] \in Whitespace}
             farthest == CHOOSE k \in blanks : \A j \in blanks : j <= k
         IN  IF farthest = pos THEN 0 ELSE MatchDown(atoms, i + 1, text, farthest, pos + 1)
    ELSE IF pos <= Len(text) /\ LowerChar(text[pos]) = LowerChar(atoms[i])
    THEN MatchAtoms(atoms, i + 1, text, pos + 1)
    ELSE 0

\* Greedy repetition: the longest extent first, backing off down to lowest.
MatchDown(atoms, i, text, k, lowest) ==
    IF k < lowest THEN 0
    ELSE LET r == MatchAtoms(atoms, i, text, k)
         IN  IF r # 0 THEN r ELSE MatchDown(atoms, i, text, k - 1, lowest)

\* The first alternative that matches at pos decides.
RECURSIVE MatchPattern(_, _, _, _)
MatchPattern(alts, a, text, pos) ==
    IF a > Len(alts) THEN 0
    ELSE LET r == MatchAtoms(alts[a], 1, text, pos)
         IN  IF r # 0 THEN r ELSE MatchPattern(alts, a + 1, text, pos)

\* len(re.findall(pattern, text, flags=re.IGNORECASE)) from position pos on.
RECURSIVE FindallCount(_, _, _)
FindallCount(alts, text, pos) ==
    IF pos > Len(text) + 1 THEN 0
    ELSE LET r == MatchPattern(alts, 1, text, pos)
         IN  IF r = 0 THEN FindallCount(alts, text, pos + 1)
             ELSE IF r = pos THEN 1 + FindallCount(alts, text, pos + 1)
             ELSE 1 + FindallCount(alts, text, r)

\* The matches of one pattern counted alike in the three fields.
UnweightedScore(alts, title, summary, content) ==
    (IF Truthy(title) THEN FindallCount(alts, title, 1) ELSE 0)
    + (IF Truthy(summary) THEN FindallCount(alts, summary, 1) ELSE 0)
    + (IF Truthy(content) THEN FindallCount(alts, content, 1) ELSE 0)

\* The weighted matches of one pattern; an absent or empty field is skipped.
PatternScore(alts, title, summary, content) ==
    (IF Truthy(title) THEN FindallCount(alts, title, 1) * TITLE_WEIGHT ELSE 0)
    + (IF Truthy(summary) THEN FindallCount(alts, summary, 1) * SUMMARY_WEIGHT ELSE 0)
    + (IF Truthy(content) THEN FindallCount(alts, content, 1) * CONTENT_WEIGHT ELSE 0)

RECURSIVE SumPatterns(_, _, _, _)
SumPatterns(patterns, title, summary, content) ==
    IF patterns = <<>> THEN 0
    ELSE PatternScore(patterns[1], title, summary, content)
         + SumPatterns(Tail(patterns), title, summary, content)

KeyError ==
    <<"KeyError">>

\* keyword_rules[category], no pattern for a category without rules.
PatternsOf(rules, category) ==
    LET hits == {i \in 1..Len(rules) : rules[i][1] = category}
    IN  IF hits = {} THEN <<>> ELSE rules[CHOOSE i \in hits : TRUE][2]

\* scores: the score of each category of ALL_CATEGORIES, in their order.
RECURSIVE CategoryScores(_, _, _, _, _)
CategoryScores(categories, rules, title, summary, content) ==
    IF categories = <<>> THEN <<>>
    ELSE <<SumPatterns(PatternsOf(rules, categories[1]), title, summary, content)>>
         \o CategoryScores(Tail(categories), rules, title, summary, content)

\* max(scores.items(), key=...) keeps the first of the highest.
FirstHighest(scores) ==
    CHOOSE i \in 1..Len(scores) :
        /\ \A j \in 1..Len(scores) : scores[j] <= scores[i]
        /\ \A j \in 1..(i - 1) : scores[j] < scores[i]

BestCategory(scores, best) ==
    IF scores[best] > 0 THEN ALL_CATEGORIES[best] ELSE None

\* scores has a key per category of ALL_CATEGORIES only: adding to the score
\* of another category of keyword_rules raises KeyError.
KeywordCategory(rules, scores) ==
    IF \E i \in 1..Len(rules) :
           rules[i][1] \notin Range(ALL_CATEGORIES) /\ rules[i][2] # <<>>
    THEN KeyError
    ELSE BestCategory(scores, FirstHighest(scores))

WeightedCategory(rules, title, summary, content) ==
    KeywordCategory(rules, CategoryScores(ALL_CATEGORIES, rules, title, summary, content))

\* _categorize_by_keywords_weighted
categorize_by_keywords_weighted(custom_rules, title, summary, content) ==
    IF Falsy(title) /\ Falsy(summary) /\ Falsy(content) THEN None
    ELSE WeightedCategory(KeywordRules(custom_rules), title, summary, content)

\* The rule of the first hit, in table order.
FirstHit(rules, hits) ==
    IF hits = {} THEN None
    ELSE rules[CHOOSE i \in hits : \A j \in hits : i <= j][2]

\* The first rule, in table order, whose substring occurs in the text.
FirstRule(rules, text) ==
    FirstHit(rules, {i \in 1..Len(rules) : Contains(Lower(text), Lower(rules[i][1]))})

\* The first of two results that is not None.
FirstNotNone(a, b) ==
    IF a # None THEN a ELSE b

AttributeError ==
    <<"AttributeError">>

\* The URL consulted before the source.
UrlBeforeSource(rules, source, url) ==
    FirstNotNone(IF Truthy(url) THEN FirstRule(rules, url) ELSE None,
                 FirstRule(rules, source))

\* source.lower() first: a source of None has no lower().
SourceCategory(rules, source, url) ==
    IF source = None THEN AttributeError
    ELSE FirstNotNone(FirstRule(rules, source),
                      IF Truthy(url) THEN FirstRule(rules, url) ELSE None)

\* _categorize_by_source
categorize_by_source(custom_rules, source, url) ==
    SourceCategory(SourceRules(custom_rules), source, url)

\* normalize_category_name on a metadata value of any type: a falsy value
\* gives None, a str is looked up, and any other truthy value has no strip().
normalize_category_value(v) ==
    IF v = PyNone THEN None
    ELSE IF IsStr(v) THEN normalize_category_name(v[2])
    ELSE IF v \in {PyList(<<>>), EmptyDict, <<"int", 0>>} THEN None
    ELSE AttributeError

\* metadata_dict[key] normalized, None for a key that is absent.
MetadataValue(metadata_dict, key) ==
    IF key \in DictKeys(metadata_dict)
    THEN normalize_category_value(DictGet(metadata_dict, key))
    ELSE None

\* The first of category_override, category in metadata that normalizes.
MetadataCategory(metadata_dict) ==
    FirstNotNone(MetadataValue(metadata_dict, "category_override"),
                 MetadataValue(metadata_dict, "category"))

MetadataDict(metadata) ==
    IF IsDict(metadata) THEN metadata ELSE EmptyDict

\* categorize
categorize(custom_rules, source, title, summary, content, url, metadata) ==
    FirstNotNone(MetadataCategory(MetadataDict(metadata)),
        FirstNotNone(categorize_by_source(custom_rules, source, url),
            FirstNotNone(categorize_by_keywords_weighted(custom_rules, title, summary, content),
                         CATEGORY_INDUSTRY_MEDIA)))

\* EmailDigestBuilder.CATEGORY_ORDER (email_builder.py): the order in which the
\* digest displays the categories.
CATEGORY_ORDER ==
    <<CATEGORY_NHSA_POLICY, CATEGORY_NHC_POLICY, CATEGORY_FINANCIAL,
      CATEGORY_PRODUCT_LAUNCH, CATEGORY_BIDDING, CATEGORY_INDUSTRY_MEDIA,
      CATEGORY_UNKNOWN, <<"u","n","k","n","o","w","n">>>>

\* ------------------------------------------------------------------------
\* Company matcher (company_matching.py)
\* ------------------------------------------------------------------------

\* The printable ASCII characters (but the quotes and the backslash) in code
\* point order: the order of sorted().
AsciiChars ==
    <<" ","!","#","$","%","&","'","(",")","*","+",",","-",".","/","0","1","2","3","4","5","6","7","8","9",":",";","<","=",">","?","@","A","B","C","D","E","F","G","H","I","J","K","L","M","N","O","P","Q","R","S","T","U","V","W","X","Y","Z","[","]","^","_","a","b","c","d","e","f","g","h","i","j","k","l","m","n","o","p","q","r","s","t","u","v","w","x","y","z","{","|","}","~">>

CodePoint(c) ==
    CHOOSE i \in 1..Len(AsciiChars) : AsciiChars[i] = c

\* a < b for two str values.
RECURSIVE StrLess(_, _)
StrLess(a, b) ==
    IF b = <<>> THEN FALSE
    ELSE IF a = <<>> THEN TRUE
    ELSE IF a[1] = b[1] THEN StrLess(Tail(a), Tail(b))
    ELSE CodePoint(a[1]) < CodePoint(b[1])

\* sorted(names) for a set of str values.
RECURSIVE Sorted(_)
Sorted(names) ==
    IF names = {} THEN <<>>
    ELSE LET least == CHOOSE n \in names : \A o \in names \ {n} : StrLess(n, o)
         IN  <<least>> \o Sorted(names \ {least})

\* The company dataset: a bounded stand-in for config/ivd_companies.json.
\* The keyword "poc" is listed by both companies.
DIRECTORY ==
    << [name |-> <<"M","i","r","a">>, english_name |-> <<"M","I","N","D">>,
        aliases |-> << <<"M","R">> >>,
        keywords |-> << <<"e","c","g">>, <<"m","o","n">>, <<"p","o","c">> >>],
       [name |-> <<"A","n","t","o">>, english_name |-> None,
        aliases |-> << <<"A","B">> >>,
        keywords |-> << <<"c","l">>, <<"p","o","c">> >>] >>

CanonicalNames ==
    {DIRECTORY[i].name : i \in 1..Len(DIRECTORY)}

DEFAULT_PARTIAL_THRESHOLD ==
    90

\* A matcher is built from manual_overrides (a sequence of <<pattern, name>>),
\* blacklist (a set of str) and partial_threshold.
DefaultMatcher ==
    [manual_overrides |-> <<>>, blacklist |-> {}, partial_threshold |-> DEFAULT_PARTIAL_THRESHOLD]

\* _load_companies: the three lookup tables, as <<key, canonical name>> in
\* insertion order; a key loaded twice keeps its place and the last name.
RECURSIVE LoadNames(_, _)
LoadNames(i, table) ==
    IF i > Len(DIRECTORY) THEN table
    ELSE LET c == DIRECTORY[i]
             withName == DictPut(table, Lower(c.name), c.name)
         IN  LoadNames(i + 1,
                 IF Truthy(c.english_name)
                 THEN DictPut(withName, Lower(c.english_name), c.name)
                 ELSE withName)

RECURSIVE PutKeys(_, _, _)
PutKeys(table, keys, name) ==
    IF keys = <<>> THEN table
    ELSE PutKeys(DictPut(table, Lower(keys[1]), name), Tail(keys), name)

RECURSIVE LoadAliases(_, _)
LoadAliases(i, table) ==
    IF i > Len(DIRECTORY) THEN table
    ELSE LoadAliases(i + 1, PutKeys(table, DIRECTORY[i].aliases, DIRECTORY[i].name))

RECURSIVE LoadKeywords(_, _)
LoadKeywords(i, table) ==
    IF i > Len(DIRECTORY) THEN table
    ELSE LoadKeywords(i + 1, PutKeys(table, DIRECTORY[i].keywords, DIRECTORY[i].name))

company_lookup ==
    LoadNames(1, <<>>)

alias_lookup ==
    LoadAliases(1, <<>>)

keyword_lookup ==
    LoadKeywords(1, <<>>)

\* table.get(key): the value of the pair with this key, None when absent.
TableGet(table, key) ==
    LET hits == {i \in 1..Len(table) : table[i][1] = key}
    IN  IF hits = {} THEN None ELSE table[CHOOSE i \in hits : TRUE][2]

\* `a or b` for two str-or-None values.
Or(a, b) ==
    IF Truthy(a) THEN a ELSE b

\* The name table first, then the alias table (the loop over the companies
\* that follows finds nothing the name table has not).
LookupName(lowered, byName, byAlias) ==
    IF byName # None THEN byName ELSE byAlias

\* _canonicalize_name
canonicalize_name(name) ==
    IF Falsy(name) THEN None
    ELSE LookupName(Lower(name), TableGet(company_lookup, Lower(name)),
                    TableGet(alias_lookup, Lower(name)))

\* A name kept as given, without a lookup.
KeepName(name) ==
    name

\* `canonical or str(name)`: an identifier the directory does not know is kept.
CanonicalOrSelf(name) ==
    Or(canonicalize_name(name), name)

\* _unique_preserve_order: the truthy values, each once, first seen first.
\* The values as they are, repeats and empty ones included.
KeepAll(values, seen) ==
    values

RECURSIVE unique_preserve_order(_, _)
unique_preserve_order(values, seen) ==
    IF values = <<>> THEN <<>>
    ELSE IF Falsy(values[1]) \/ values[1] \in seen
    THEN unique_preserve_order(Tail(values), seen)
    ELSE <<values[1]>> \o unique_preserve_order(Tail(values), seen \cup {values[1]})

\* normalize_names
normalize_names(names) ==
    unique_preserve_order([i \in 1..Len(names) |-> CanonicalOrSelf(names[i])], {})

\* str(value) for a metadata value.
PyToStr(v) ==
    IF IsStr(v) THEN v[2]
    ELSE IF v = PyNone THEN <<"N","o","n","e">>
    ELSE IF v = PyList(<<>>) THEN <<"[","]">>
    ELSE IF v = EmptyDict THEN <<"{","}">>
    ELSE IF v[1] = "int" THEN <<AsciiChars[CodePoint("0") + v[2]]>>
    ELSE <<"?">>

\* bool(value) for a metadata value.
PyTruthy(v) ==
    IF v = PyNone THEN FALSE
    ELSE IF v[1] = "int" THEN v[2] # 0
    ELSE v[2] # <<>>

\* [str(item) for item in value]
StrItems(v) ==
    [i \in 1..Len(v[2]) |-> PyToStr(v[2][i])]

\* A CompanyMatch.
CompanyMatch(company_name, matched_text, score, match_type) ==
    [company_name |-> company_name, matched_text |-> matched_text,
     score |-> score, match_type |-> match_type]

\* matches is a function from company names to their CompanyMatch.
NoMatches ==
    [n \in {} |-> CompanyMatch(<<>>, <<>>, 0, "none")]

\* matches[name] = match
PutMatch(matches, match) ==
    [n \in DOMAIN matches \cup {match.company_name} |->
        IF n = match.company_name THEN match ELSE matches[n]]

\* matches.setdefault(name, match)
SetDefaultMatch(matches, match) ==
    IF match.company_name \in DOMAIN matches THEN matches ELSE PutMatch(matches, match)

\* _combine_text: title and summary count twice.
combine_text(text, title, summary) ==
    Join(<<" ">>,
         (IF Truthy(title) THEN <<title, title>> ELSE <<>>)
         \o (IF Truthy(summary) THEN <<summary, summary>> ELSE <<>>)
         \o (IF Truthy(text) THEN <<text>> ELSE <<>>))

\* The first place where part occurs in text (part occurs in it).
FirstIndex(text, part) ==
    CHOOSE i \in 1..(Len(text) - Len(part) + 1) :
        /\ SubSeq(text, i, i + Len(part) - 1) = part
        /\ \A j \in 1..(i - 1) : SubSeq(text, j, j + Len(part) - 1) # part

\* The text as written where the lower-cased key first occurs.
FoundText(text, key) ==
    LET i == FirstIndex(Lower(text), key)
    IN  SubSeq(text, i, i + Len(key) - 1)

\* _match_overrides: a match per override pattern that occurs in the text.
RECURSIVE match_overrides(_, _)
match_overrides(text, overrides) ==
    IF overrides = <<>> THEN <<>>
    ELSE (IF Contains(Lower(text), overrides[1][1])
          THEN <<CompanyMatch(overrides[1][2], overrides[1][1], 100, "override")>>
          ELSE <<>>)
         \o match_overrides(text, Tail(overrides))

\* _match_exact and _match_aliases: a match per key of the table that occurs.
RECURSIVE MatchTable(_, _, _, _)
MatchTable(text, table, score, match_type) ==
    IF table = <<>> THEN <<>>
    ELSE (IF Contains(Lower(text), table[1][1])
          THEN <<CompanyMatch(table[1][2], FoundText(text, table[1][1]), score, match_type)>>
          ELSE <<>>)
         \o MatchTable(text, Tail(table), score, match_type)

match_exact(text) ==
    MatchTable(text, company_lookup, 100, "exact")

match_aliases(text) ==
    MatchTable(text, alias_lookup, 95, "alias")

Min(a, b) ==
    IF a < b THEN a ELSE b

\* keyword_counts[company_name] = (count + 1, first_keyword): a company keeps
\* its place and its first keyword.
CountKeyword(counts, company_name, keyword) ==
    IF \E i \in 1..Len(counts) : counts[i][1] = company_name
    THEN [i \in 1..Len(counts) |->
            IF counts[i][1] = company_name
            THEN <<company_name, counts[i][2] + 1, counts[i][3]>> ELSE counts[i]]
    ELSE Append(counts, <<company_name, 1, keyword>>)

RECURSIVE KeywordCounts(_, _, _, _)
KeywordCounts(table, text_lower, blacklist, counts) ==
    IF table = <<>> THEN counts
    ELSE KeywordCounts(Tail(table), text_lower, blacklist,
             IF Contains(text_lower, table[1][1]) /\ table[1][2] \notin blacklist
             THEN CountKeyword(counts, table[1][2], table[1][1]) ELSE counts)

\* A keyword stage that credits a company on a single keyword.
RECURSIVE CreditSingle(_)
CreditSingle(counts) ==
    IF counts = <<>> THEN <<>>
    ELSE <<CompanyMatch(counts[1][1], counts[1][3],
                        Min(70 + counts[1][2] * 5, 90), "keyword")>>
         \o CreditSingle(Tail(counts))

RECURSIVE KeywordMatches(_)
KeywordMatches(counts) ==
    IF counts = <<>> THEN <<>>
    ELSE (IF counts[1][2] >= 2
          THEN <<CompanyMatch(counts[1][1], counts[1][3],
                              Min(70 + counts[1][2] * 5, 90), "keyword")>>
          ELSE <<>>)
         \o KeywordMatches(Tail(counts))

\* _match_keywords: the keywords found, counted per company that is not
\* blacklisted; a company with two or more is matched on its first keyword.
match_keywords(text, blacklist) ==
    KeywordMatches(KeywordCounts(keyword_lookup, Lower(text), blacklist, <<>>))

\* The delimiters of _extract_segments: CJK and ASCII punctuation, whitespace.
SegmentDelimiters ==
    Whitespace \cup {",", ".", ":", ";", "!", "?", "(", ")", "[", "]", "{", "}",
                     "uff0c", "u3002", "u3001", "uff1b", "uff1a", "uff01", "uff1f"}

\* re.split on runs of delimiters.
RECURSIVE SplitSegments(_, _)
SplitSegments(text, current) ==
    IF text = <<>> THEN <<current>>
    ELSE IF text[1] \in SegmentDelimiters
    THEN <<current>> \o SplitSegments(Tail(text), <<>>)
    ELSE SplitSegments(Tail(text), Append(current, text[1]))

RECURSIVE KeepSegments(_)
KeepSegments(stripped) ==
    IF stripped = <<>> THEN <<>>
    ELSE (IF Len(stripped[1]) >= 2 /\ Len(stripped[1]) <= 24 THEN <<stripped[1]>> ELSE <<>>)
         \o KeepSegments(Tail(stripped))

RECURSIVE StripAll(_)
StripAll(parts) ==
    IF parts = <<>> THEN <<>> ELSE <<Strip(parts[1])>> \o StripAll(Tail(parts))

\* _extract_segments: the stripped segments of 2 to 24 characters.
extract_segments(text) ==
    KeepSegments(StripAll(SplitSegments(text, <<>>)))

\* The length of the longest common subsequence.
RECURSIVE LCSLen(_, _)
LCSLen(a, b) ==
    IF a = <<>> \/ b = <<>> THEN 0
    ELSE IF a[1] = b[1] THEN 1 + LCSLen(Tail(a), Tail(b))
    ELSE LET x == LCSLen(Tail(a), b)
             y == LCSLen(a, Tail(b))
         IN  IF x >= y THEN x ELSE y

\* fuzz.ratio, rounded down: the normalized indel similarity of two strings.
Ratio(a, b) ==
    IF Len(a) + Len(b) = 0 THEN 100 ELSE (200 * LCSLen(a, b)) \div (Len(a) + Len(b))

\* The windows of the longer string: its substrings of the shorter's length
\* m, and its shorter prefixes and suffixes.
Windows(longer, m) ==
    {SubSeq(longer, i, i + m - 1) : i \in 1..(Len(longer) - m + 1)}
        \cup {SubSeq(longer, 1, k) : k \in 1..Min(m - 1, Len(longer))}
        \cup {SubSeq(longer, Len(longer) - k + 1, Len(longer)) :
                 k \in 1..Min(m - 1, Len(longer))}

Highest(scores) ==
    CHOOSE s \in scores : \A o \in scores : o <= s

BestWindow(shorter, longer) ==
    Highest({Ratio(shorter, w) : w \in Windows(longer, Len(shorter))} \cup {0})

\* fuzz.partial_ratio, rounded down: the best fuzz.ratio of the shorter string
\* against the windows of the longer one.
partial_ratio(s1, s2) ==
    IF Len(s1) <= Len(s2) THEN BestWindow(s1, s2) ELSE BestWindow(s2, s1)

EXTRACT_LIMIT ==
    3

\* The score of the segment against each term, in the order of the terms.
RECURSIVE Scores(_, _)
Scores(segment, terms) ==
    IF terms = <<>> THEN <<>>
    ELSE <<partial_ratio(segment, terms[1][1])>> \o Scores(segment, Tail(terms))

\* The hits best score first, equal scores in the order of the terms, the
\* first three, each as <<index of the term, score>>.
Ranked(scores, hits) ==
    [k \in 1..Min(EXTRACT_LIMIT, Cardinality(hits)) |->
        LET kth == CHOOSE i \in hits :
                       Cardinality({j \in hits : scores[j] > scores[i]
                                                 \/ (scores[j] = scores[i] /\ j < i)}) = k - 1
        IN  <<kth, scores[kth]>>]

TopScores(scores, score_cutoff) ==
    Ranked(scores, {i \in 1..Len(scores) : scores[i] >= score_cutoff})

\* process.extract(segment, terms, scorer=partial_ratio, limit=3, score_cutoff):
\* the terms that reach the cutoff, best first, each with its score.
Extract(segment, terms, score_cutoff) ==
    TopScores(Scores(segment, terms), score_cutoff)

\* _match_fuzzy, one segment: a match per extracted term whose company is
\* neither excluded so far nor blacklisted; a matched company is excluded.
RECURSIVE FuzzyResults(_, _, _, _, _, _)
FuzzyResults(segment, terms, results, k, exclude, blacklist) ==
    IF k > Len(results) THEN [matches |-> <<>>, exclude |-> exclude]
    ELSE LET company_name == terms[results[k][1]][2]
         IN  IF company_name \in exclude \/ company_name \in blacklist
             THEN FuzzyResults(segment, terms, results, k + 1, exclude, blacklist)
             ELSE LET rest == FuzzyResults(segment, terms, results, k + 1,
                                           exclude \cup {company_name}, blacklist)
                  IN  [matches |-> <<CompanyMatch(company_name, segment, results[k][2], "fuzzy")>>
                                       \o rest.matches,
                       exclude |-> rest.exclude]

RECURSIVE FuzzySegments(_, _, _, _, _)
FuzzySegments(segments, terms, score_cutoff, exclude, blacklist) ==
    IF segments = <<>> THEN <<>>
    ELSE LET here == FuzzyResults(segments[1], terms,
                                  Extract(segments[1], terms, score_cutoff), 1,
                                  exclude, blacklist)
         IN  here.matches
             \o FuzzySegments(Tail(segments), terms, score_cutoff, here.exclude, blacklist)

\* The pairs of a table that satisfy keep, in order.
RECURSIVE FilterTable(_, _, _)
FilterTable(table, exclude, blacklist) ==
    IF table = <<>> THEN <<>>
    ELSE (IF table[1][2] \notin exclude /\ table[1][2] \notin blacklist
          THEN <<table[1]>> ELSE <<>>)
         \o FilterTable(Tail(table), exclude, blacklist)

FuzzyOver(available_terms, text, score_cutoff, exclude, blacklist) ==
    IF available_terms = <<>> THEN <<>>
    ELSE FuzzySegments(extract_segments(text), available_terms, score_cutoff,
                       exclude, blacklist)

\* _match_fuzzy
match_fuzzy(matcher, text, exclude, blacklist) ==
    FuzzyOver(FilterTable(UpdateAll(company_lookup, alias_lookup), exclude, blacklist),
              text, matcher.partial_threshold, exclude, blacklist)

\* A blacklist test that finds nothing.
NeverBlacklisted(text, blacklist_terms) ==
    FALSE

\* _is_blacklisted
is_blacklisted(text, blacklist_terms) ==
    \E term \in blacklist_terms : Contains(Lower(text), Lower(term))

\* The pattern overrides: the matcher's, then the metadata's, keyed by the
\* lower-cased pattern.  A metadata pattern that is not a str has no lower():
\* `raised` names the exception, "" when there is none.
RECURSIVE MetadataOverrides(_, _)
MetadataOverrides(table, pairs) ==
    IF pairs = <<>> THEN [raised |-> "", table |-> table]
    ELSE IF ~IsStr(pairs[1][1]) THEN [raised |-> "AttributeError", table |-> <<>>]
    ELSE MetadataOverrides(
             DictPut(table, Lower(pairs[1][1][2]), CanonicalOrSelf(PyToStr(pairs[1][2]))),
             Tail(pairs))

RECURSIVE ManualOverrides(_, _)
ManualOverrides(table, pairs) ==
    IF pairs = <<>> THEN table
    ELSE ManualOverrides(DictPut(table, Lower(pairs[1][1]), CanonicalOrSelf(pairs[1][2])),
                         Tail(pairs))

WithMetadataOverrides(manual, fromMetadata) ==
    IF IsDict(fromMetadata) THEN MetadataOverrides(manual, fromMetadata[2])
    ELSE [raised |-> "", table |-> manual]

PatternOverrides(matcher, metadata) ==
    WithMetadataOverrides(ManualOverrides(<<>>, matcher.manual_overrides),
                          DictGet(metadata, "company_overrides"))

\* The stages fold their matches into `matches`, each in its own way.
RECURSIVE PutAll(_, _, _)
PutAll(matches, found, name_blacklist) ==
    IF found = <<>> THEN matches
    ELSE PutAll(IF found[1].company_name \notin name_blacklist
                THEN PutMatch(matches, found[1]) ELSE matches,
                Tail(found), name_blacklist)

RECURSIVE SetDefaultAll(_, _, _)
SetDefaultAll(matches, found, name_blacklist) ==
    IF found = <<>> THEN matches
    ELSE SetDefaultAll(IF found[1].company_name \notin name_blacklist
                       THEN SetDefaultMatch(matches, found[1]) ELSE matches,
                       Tail(found), name_blacklist)

RECURSIVE PutHints(_, _, _)
PutHints(matches, hints, name_blacklist) ==
    IF hints = <<>> THEN matches
    ELSE LET canonical == CanonicalOrSelf(PyToStr(hints[1]))
         IN  PutHints(IF Truthy(canonical) /\ canonical \notin name_blacklist
                      THEN PutMatch(matches,
                                    CompanyMatch(canonical, PyToStr(hints[1]), 100, "hint"))
                      ELSE matches,
                      Tail(hints), name_blacklist)

RECURSIVE PutKeywords(_, _)
PutKeywords(matches, found) ==
    IF found = <<>> THEN matches
    ELSE PutKeywords(IF found[1].company_name \notin DOMAIN matches
                        \/ found[1].score > matches[found[1].company_name].score
                     THEN PutMatch(matches, found[1]) ELSE matches,
                     Tail(found))

\* text_blacklist_terms: the matcher's blacklist and the metadata's terms.
TextBlacklistTerms(matcher, blacklist_terms) ==
    matcher.blacklist
        \cup (IF IsList(blacklist_terms) THEN Range(StrItems(blacklist_terms)) ELSE {})

\* name_blacklist: the canonical names of the metadata's company_blacklist.
NameBlacklist(entries) ==
    IF IsList(entries) THEN {CanonicalOrSelf(s) : s \in Range(StrItems(entries))} ELSE {}

StageOverrides(combined_text, overrides, name_blacklist) ==
    PutAll(NoMatches, match_overrides(combined_text, overrides), name_blacklist)

StageHints(matches, hints, name_blacklist) ==
    IF IsList(hints) THEN PutHints(matches, hints[2], name_blacklist) ELSE matches

StageExact(matches, combined_text, name_blacklist) ==
    SetDefaultAll(matches, match_exact(combined_text), name_blacklist)

StageAliases(matches, combined_text, name_blacklist) ==
    SetDefaultAll(matches, match_aliases(combined_text), name_blacklist)

StageKeywords(matches, combined_text, name_blacklist) ==
    PutKeywords(matches, match_keywords(combined_text, name_blacklist))

StageFuzzy(matcher, matches, combined_text, name_blacklist) ==
    SetDefaultAll(matches,
                  match_fuzzy(matcher, combined_text, DOMAIN matches, name_blacklist),
                  name_blacklist)

\* filtered: the matches whose matched text holds no blacklisted term.
Filtered(matches, text_blacklist_terms) ==
    [n \in {m \in DOMAIN matches :
               ~is_blacklisted(matches[m].matched_text, text_blacklist_terms)} |->
        matches[n]]

\* The stages in order, each on the matches of the one before.
RunStages(matcher, combined_text, pattern_overrides, text_blacklist_terms,
          name_blacklist, hints) ==
    IF pattern_overrides.raised # ""
    THEN [raised |-> pattern_overrides.raised, matches |-> NoMatches]
    ELSE [raised |-> "",
          matches |->
            Filtered(
              StageFuzzy(matcher,
                StageKeywords(
                  StageAliases(
                    StageExact(
                      StageHints(
                        StageOverrides(combined_text, pattern_overrides.table, name_blacklist),
                        hints, name_blacklist),
                      combined_text, name_blacklist),
                    combined_text, name_blacklist),
                  combined_text, name_blacklist),
                combined_text, name_blacklist),
              text_blacklist_terms)]

\* match_companies, after the companies_override short cut: the stages in
\* order, then the text blacklist; the CompanyMatch kept for each company.
MatchStages(matcher, text, title, summary, metadata) ==
    RunStages(matcher, combine_text(text, title, summary),
              PatternOverrides(matcher, metadata),
              TextBlacklistTerms(matcher, DictGet(metadata, "company_blacklist_terms")),
              NameBlacklist(DictGet(metadata, "company_blacklist")),
              DictGet(metadata, "company_hints"))

\* companies_override: the normalized names of a list, none otherwise.
NormalizedOverride(override_list) ==
    IF IsList(override_list) THEN normalize_names(StrItems(override_list)) ELSE <<>>

\* The returns of match_companies in order: the override, nothing to match,
\* the names the stages kept.
MatchOutcome(normalized_override, nothing_to_match, stages) ==
    IF normalized_override # <<>>
    THEN [raised |-> "", names |-> Sorted(Range(normalized_override))]
    ELSE IF nothing_to_match THEN [raised |-> "", names |-> <<>>]
    ELSE IF stages.raised # "" THEN [raised |-> stages.raised, names |-> <<>>]
    ELSE [raised |-> "", names |-> Sorted(DOMAIN stages.matches)]

MatchIn(matcher, text, title, summary, md) ==
    MatchOutcome(NormalizedOverride(DictGet(md, "companies_override")),
                 Falsy(text) /\ Falsy(title) /\ Falsy(summary)
                     /\ ~PyTruthy(DictGet(md, "company_hints")),
                 MatchStages(matcher, text, title, summary, md))

\* match_companies: the sorted canonical names found in the item, or the
\* exception raised.
match_companies(matcher, text, title, summary, metadata) ==
    MatchIn(matcher, text, title, summary,
            IF IsDict(metadata) THEN metadata ELSE EmptyDict)

\* ------------------------------------------------------------------------
\* Ingestion store (database.py)
\* ------------------------------------------------------------------------

\* SQL NULL ids: a row id is at least 1.
NoId ==
    0

\* _normalise_url
normalise_url(url) ==
    Lower(Strip(url))

\* _hash_text: SHA-256, taken to be free of collisions: the digest stands for
\* the text it was computed from.
hash_text(value) ==
    <<"sha256", value>>

\* The separator of the content fingerprint, U+241F.
CONTENT_SEPARATOR ==
    <<"u241f">>

OrEmpty(value) ==
    IF Falsy(value) THEN <<>> ELSE value

\* url_hash of insert_record
UrlHash(url) ==
    hash_text(normalise_url(url))

\* content_hash of insert_record
ContentHash(title, summary, content_html) ==
    hash_text(Join(CONTENT_SEPARATOR,
                   <<Strip(OrEmpty(title)), Strip(OrEmpty(summary)), Strip(OrEmpty(content_html))>>))

\* _utc_now at clock reading t.
utc_now(t) ==
    <<"utc", t>>

\* _normalize_timestamp on a str-or-None value.
normalize_timestamp(value, default_to_now, t) ==
    IF value = None \/ Strip(value) = <<>>
    THEN IF default_to_now THEN utc_now(t) ELSE None
    ELSE Strip(value)

\* json.dumps(value, sort_keys=True) keeps no key order: a dict becomes the
\* function from its keys to its values (a repeated key keeps its last value).
RECURSIVE Canonical(_)
Canonical(v) ==
    IF IsDict(v)
    THEN <<"object", [k \in DictKeys(v) |->
                        Canonical(v[2][CHOOSE i \in 1..Len(v[2]) :
                                         /\ v[2][i][1] = k
                                         /\ \A j \in (i + 1)..Len(v[2]) : v[2][j][1] # k][2])]>>
    ELSE IF IsList(v) THEN <<"array", [i \in 1..Len(v[2]) |-> Canonical(v[2][i])]>>
    ELSE v

\* _to_json: None stays None (SQL NULL).
to_json(value) ==
    IF value = PyNone THEN None ELSE <<"json", Canonical(value)>>

\* _from_json: the parsed value, the default for NULL.
from_json(value, default) ==
    IF value = None THEN default ELSE value[2]

\* canonical_companies: the names given, normalized, or the matcher's.
CanonicalCompanies(item, metadata_dict) ==
    IF PyTruthy(item.companies)
    THEN [raised |-> "", names |-> normalize_names(item.companies[2])]
    ELSE match_companies(DefaultMatcher, item.content_html, item.title,
                         item.summary, metadata_dict)

\* category: the category given when it normalizes, or the classifier's.
RecordCategory(item, metadata_dict) ==
    FirstNotNone(normalize_category_name(item.category),
                 categorize(NoCustomRules, item.source, item.title, item.summary,
                            item.content_html, item.url, metadata_dict))

EnrichedFields(canonical_companies, category) ==
    IF canonical_companies.raised # ""
    THEN [raised |-> canonical_companies.raised, companies |-> <<>>, category |-> None]
    ELSE IF category \in {KeyError, AttributeError}
    THEN [raised |-> category[1], companies |-> <<>>, category |-> None]
    ELSE [raised |-> "", companies |-> canonical_companies.names, category |-> category]

\* _enrich_record_fields: the companies and the category of an item, from the
\* default matcher and classifier; `raised` names an exception of theirs.
enrich_record_fields(item) ==
    EnrichedFields(CanonicalCompanies(item, MetadataDict(item.metadata)),
                   RecordCategory(item, MetadataDict(item.metadata)))

\* A lookup on the wrong column, which matches no row.
ByWrongColumn(rows, url_hash) ==
    {i \in 1..Len(rows) : rows[i].content_hash = url_hash}

\* SELECT id, content_hash FROM records WHERE url_hash = ?
ByUrlHash(rows, url_hash) ==
    {i \in 1..Len(rows) : rows[i].url_hash = url_hash}

\* SELECT id FROM records WHERE content_hash = ?
ByContentHash(rows, content_hash) ==
    {i \in 1..Len(rows) : rows[i].content_hash = content_hash}

\* An insert without any lookup.
DecisionsInsertOnly(rows, payload) ==
    {[status |-> "inserted", record_id |-> Len(rows) + 1, duplicate_of |-> NoId]}

\* The URL lookup without the content lookup.
DecisionsUrlOnly(rows, payload) ==
    LET existing == {i \in 1..Len(rows) : rows[i].url_hash = payload.url_hash}
    IN  IF existing # {}
        THEN {[status |-> IF rows[id].content_hash # payload.content_hash
                          THEN "updated" ELSE "duplicate",
               record_id |-> id,
               duplicate_of |-> IF rows[id].content_hash # payload.content_hash
                                THEN NoId ELSE id] : id \in existing}
        ELSE {[status |-> "inserted", record_id |-> Len(rows) + 1, duplicate_of |-> NoId]}

\* A row found under the URL is updated without a look at its content.
DecisionsAlwaysUpdate(rows, payload) ==
    LET existing == {i \in 1..Len(rows) : rows[i].url_hash = payload.url_hash}
        candidates == {i \in 1..Len(rows) : rows[i].content_hash = payload.content_hash}
    IN  IF existing # {}
        THEN {[status |-> "updated", record_id |-> id, duplicate_of |-> NoId] :
                 id \in existing}
        ELSE IF candidates # {}
        THEN {[status |-> "duplicate", record_id |-> id, duplicate_of |-> id] :
                 id \in candidates}
        ELSE {[status |-> "inserted", record_id |-> Len(rows) + 1, duplicate_of |-> NoId]}

\* The outcomes of the two lookups: the status, the row and the duplicate
\* target.  fetchone() on the content lookup may return any matching row.
Decisions(rows, payload) ==
    LET existing == ByUrlHash(rows, payload.url_hash)
        candidates == ByContentHash(rows, payload.content_hash)
    IN  IF existing # {}
        THEN {[status |-> IF rows[id].content_hash # payload.content_hash
                          THEN "updated" ELSE "duplicate",
               record_id |-> id,
               duplicate_of |-> IF rows[id].content_hash # payload.content_hash
                                THEN NoId ELSE id] : id \in existing}
        ELSE IF candidates # {}
        THEN {[status |-> "duplicate", record_id |-> id, duplicate_of |-> id] :
                 id \in candidates}
        ELSE {[status |-> "inserted", record_id |-> Len(rows) + 1, duplicate_of |-> NoId]}

\* COALESCE(x, y)
Coalesce(x, y) ==
    IF x # None THEN x ELSE y

\* An update that keeps the stored value where the new item has none.
MergeRow(row, payload) ==
    [row EXCEPT !.source = payload.source,
                !.source_type = Coalesce(payload.source_type, @),
                !.category = payload.category,
                !.companies = payload.companies,
                !.title = Coalesce(payload.title, @),
                !.summary = Coalesce(payload.summary, @),
                !.content_html = Coalesce(payload.content_html, @),
                !.publish_date = Coalesce(payload.publish_date, @),
                !.url = payload.url,
                !.region = Coalesce(payload.region, @),
                !.scraped_at = payload.scraped_at,
                !.metadata = Coalesce(payload.metadata, @),
                !.content_hash = payload.content_hash,
                !.updated_at = payload.updated_at]

\* An UPDATE of a row whose content changed that leaves content_hash as it
\* was.
UpdateKeepingHash(row, payload) ==
    [row EXCEPT !.source = payload.source,
                !.source_type = payload.source_type,
                !.category = payload.category,
                !.companies = payload.companies,
                !.title = payload.title,
                !.summary = payload.summary,
                !.content_html = payload.content_html,
                !.publish_date = payload.publish_date,
                !.url = payload.url,
                !.region = payload.region,
                !.scraped_at = payload.scraped_at,
                !.metadata = payload.metadata,
                !.updated_at = payload.updated_at]

\* The UPDATE of a row whose content changed: every column of the payload
\* but url_hash; id and created_at stay.
UpdateRow(row, payload) ==
    [row EXCEPT !.source = payload.source,
                !.source_type = payload.source_type,
                !.category = payload.category,
                !.companies = payload.companies,
                !.title = payload.title,
                !.summary = payload.summary,
                !.content_html = payload.content_html,
                !.publish_date = payload.publish_date,
                !.url = payload.url,
                !.region = payload.region,
                !.scraped_at = payload.scraped_at,
                !.metadata = payload.metadata,
                !.content_hash = payload.content_hash,
                !.updated_at = payload.updated_at]

\* An UPDATE of a row seen again that also takes the item's url and title.
TouchAndRetitle(row, payload) ==
    [row EXCEPT !.url = payload.url,
                !.title = payload.title,
                !.scraped_at = payload.scraped_at,
                !.metadata = Coalesce(payload.metadata, row.metadata),
                !.updated_at = payload.updated_at]

\* The UPDATE of a row seen again.
TouchRow(row, payload) ==
    [row EXCEPT !.scraped_at = payload.scraped_at,
                !.metadata = Coalesce(payload.metadata, row.metadata),
                !.updated_at = payload.updated_at]

\* The INSERT: the next id, created_at by default.
NewRow(id, payload, t) ==
    [id |-> id,
     source |-> payload.source,
     source_type |-> payload.source_type,
     category |-> payload.category,
     companies |-> payload.companies,
     title |-> payload.title,
     summary |-> payload.summary,
     content_html |-> payload.content_html,
     publish_date |-> payload.publish_date,
     url |-> payload.url,
     url_hash |-> payload.url_hash,
     region |-> payload.region,
     scraped_at |-> payload.scraped_at,
     metadata |-> payload.metadata,
     content_hash |-> payload.content_hash,
     created_at |-> utc_now(t),
     updated_at |-> payload.updated_at]

\* url_hash TEXT NOT NULL UNIQUE: the INSERT of a url_hash some row already
\* has raises IntegrityError; the check reads the index the url_hash lookup
\* reads.
UniqueViolation(rows, payload, decision) ==
    decision.status = "inserted" /\ ByUrlHash(rows, payload.url_hash) # {}

\* The entry of a row in records_fts: its rowid and its three text columns.
IndexEntry(row) ==
    <<row.id, row.title, row.summary, row.content_html>>

\* Trigger records_ai, AFTER INSERT ON records.
records_ai(index, new) ==
    index \cup {IndexEntry(new)}

\* An AFTER UPDATE trigger that drops the old entry and adds none.
DeleteOnly(index, old, new) ==
    index \ {IndexEntry(old)}

\* Trigger records_au, AFTER UPDATE ON records: 'delete' of the old entry,
\* then the entry of the new values.
records_au(index, old, new) ==
    (index \ {IndexEntry(old)}) \cup {IndexEntry(new)}

\* The trigger of the write of insert_record: rows before, written after.
Triggers(index, rows, written, decision) ==
    IF decision.status = "inserted"
    THEN records_ai(index, written[decision.record_id])
    ELSE records_au(index, rows[decision.record_id], written[decision.record_id])

\* The write of insert_record for a decision.
ApplyWrite(rows, payload, decision, t) ==
    IF decision.status = "updated"
    THEN [rows EXCEPT ![decision.record_id] = UpdateRow(@, payload)]
    ELSE IF decision.status = "duplicate"
    THEN [rows EXCEPT ![decision.record_id] = TouchRow(@, payload)]
    ELSE Append(rows, NewRow(decision.record_id, payload, t))

\* Increments that count the call and not its outcome.
IncrementsTotalOnly(status) ==
    <<1, 0, 0, 0>>

\* The increments of a status: total, new, updated, duplicate.
Increments(status) ==
    IF status = "inserted" THEN <<1, 1, 0, 0>>
    ELSE IF status = "updated" THEN <<1, 0, 1, 0>>
    ELSE <<1, 0, 0, 1>>

\* _increment_ingestion_run: UPDATE ingestion_runs ... WHERE id = ?
increment_ingestion_run(ledger, run_id, total, new, updated, duplicate) ==
    [i \in 1..Len(ledger) |->
        IF ledger[i].id = run_id
        THEN [ledger[i] EXCEPT !.total_records = @ + total,
                               !.new_records = @ + new,
                               !.updated_records = @ + updated,
                               !.duplicate_records = @ + duplicate]
        ELSE ledger[i]]

\* Counters that count the inserted outcome only.
CountNewOnly(ledger, run_id, status) ==
    IF run_id = NoId \/ status # "inserted" THEN ledger
    ELSE increment_ingestion_run(ledger, run_id, 1, 1, 0, 0)

\* The counters of insert_record: nothing without an ingestion_run_id.
CountOutcome(ledger, run_id, status) ==
    IF run_id = NoId THEN ledger
    ELSE LET inc == Increments(status)
         IN  increment_ingestion_run(ledger, run_id, inc[1], inc[2], inc[3], inc[4])

\* RecordOperationResult, with the item of the call; a call that raised has
\* status "raised" and names the exception.
Result(item, run_id, decision) ==
    [item |-> item, ingestion_run_id |-> run_id, status |-> decision.status,
     record_id |-> decision.record_id, duplicate_of |-> decision.duplicate_of,
     raised |-> "", stage |-> ""]

\* stage is the point of insert_record the exception came from.
Raised(item, run_id, exception, stage) ==
    [item |-> item, ingestion_run_id |-> run_id, status |-> "raised",
     record_id |-> NoId, duplicate_of |-> NoId, raised |-> exception, stage |-> stage]

\* get_records_by_category: WHERE category = ? on the argument as given,
\* newest publish_date first; the rows with their JSON columns parsed.
get_records_by_category(rows, category) ==
    {i \in 1..Len(rows) : rows[i].category = category}

\* _row_to_dict: companies and metadata parsed, [] and {} for NULL.
row_to_dict(row) ==
    [row EXCEPT !.companies = from_json(@, <<"array", <<>>>>),
                !.metadata = from_json(@, <<"object", <<>>>>)]

\* The company names a stored row carries.
StoredCompanies(row) ==
    LET parsed == from_json(row.companies, <<"array", <<>>>>)[2]
    IN  {parsed[i][2] : i \in 1..Len(parsed)}

\* ------------------------------------------------------------------------
\* Inputs
\* ------------------------------------------------------------------------

MaxClock ==
    4

MaxRuns ==
    2

Urls ==
    {<<"a","/","1">>, <<" ","A","/","1"," ">>, <<"b","/","2">>}

Contents ==
    {[title |-> <<"M","R">>, summary |-> None, content_html |-> None],
     [title |-> <<" ","M","R">>, summary |-> <<>>, content_html |-> <<" ">>],
     [title |-> <<"c","l"," ","p","o","c">>, summary |-> <<"k","i","t">>, content_html |-> None]}

RSS ==
    <<"r","s","s">>

Item(url, content, source, category, companies, metadata) ==
    [source |-> source, url |-> url, source_type |-> None, category |-> category,
     companies |-> companies, title |-> content.title, summary |-> content.summary,
     content_html |-> content.content_html, publish_date |-> None, region |-> None,
     scraped_at |-> None, metadata |-> metadata]

PlainItems ==
    {Item(url, content, RSS, None, PyNone, PyNone) : url \in Urls, content \in Contents}
    \cup {Item(<<"c","/","3">>, [title |-> <<"M","R">>, summary |-> None, content_html |-> None],
               RSS, None, PyNone, PyNone)}

HintsMetadata ==
    PyDict(<< <<"company_hints", PyList(<<PyStr(<<"Z","e","d">>), PyStr(<<"a","b">>)>>)>> >>)

TaggedItems ==
    {Item(<<"a","/","1">>, [title |-> <<"M","R">>, summary |-> None, content_html |-> None],
          RSS, <<"R","e","g","u","l","a","t","o","r","y">>, PyList(<<<<"A","c","m","e">>, <<"m","r">>, <<"M","I","N","D">>>>), PyNone),
     Item(<<"b","/","2">>, [title |-> <<"c","l"," ","p","o","c">>, summary |-> <<"k","i","t">>, content_html |-> None],
          RSS, <<"P","r","o","c","u","r","e","m","e","n","t">>, PyNone, HintsMetadata),
     Item(<<"b","/","2">>, [title |-> <<"M","R">>, summary |-> None, content_html |-> None],
          RSS, <<" ","F","i","n","a","n","c","e"," ">>, PyNone, PyDict(<< <<"k", PyStr(<<"v">>)>> >>)),
     Item(<<"a","/","1">>, [title |-> <<"M","R">>, summary |-> None, content_html |-> None],
          RSS, None, PyNone, PyDict(<< <<"j", PyStr(<<"w">>)>> >>))}

BadItems ==
    {Item(<<>>, [title |-> <<"M","R">>, summary |-> None, content_html |-> None],
          RSS, None, PyNone, PyNone),
     Item(<<"a","/","1">>, [title |-> <<"M","R">>, summary |-> None, content_html |-> None],
          <<>>, None, PyNone, PyNone),
     Item(<<"b","/","2">>, [title |-> <<"M","R">>, summary |-> None, content_html |-> None],
          RSS, None, PyNone, PyDict(<< <<"category", <<"int", 1>>>> >>))}

Items ==
    PlainItems \cup TaggedItems \cup BadItems

RunIds ==
    0..MaxRuns

RunSources ==
    {RSS}

TerminalStatuses ==
    {"completed", "completed_with_errors", "failed"}

\* ------------------------------------------------------------------------
\* State
\* ------------------------------------------------------------------------

\* records and ingestion_runs are the committed tables, clock the reading of
\* the wall clock and last the outcome of the latest insert_record call.
\* conn, write_lock and version are the connections of concurrent writers,
\* the holder of the database's write lock and the number of commits.
\* classifier is the custom_rules of a CategoryClassifier and classified its
\* latest call.
\* enriched holds what _enrich_record_fields gives for each item: it is a
\* function of the item alone, computed once.
\* records_fts is the committed full-text index of records.  matcher is a
\* CompanyMatcher as built, and matched its latest call.
\* ingested is a history of the insert_record calls that returned, kept to
\* state properties of later calls: it is no part of the store.
\* http_client is the config of a collector's HTTPClient, with the value
\* max_retries was configured with, and fetches the calls made on it.
VARIABLES records, records_fts, ingestion_runs, clock, last, conn, write_lock, version,
          classifier, classified, enriched, http_client, fetches, matcher, matched,
          ingested

vars ==
    <<records, records_fts, ingestion_runs, clock, last, conn, write_lock, version,
      classifier, classified, enriched, http_client, fetches, matcher, matched, ingested>>

\* The payload of insert_record for an item at clock reading t.
Payload(item, t) ==
    LET fields == enriched[item]
    IN  [source |-> item.source,
         source_type |-> item.source_type,
         category |-> fields.category,
         companies |-> to_json(PyList([i \in 1..Len(fields.companies) |->
                                          PyStr(fields.companies[i])])),
         title |-> item.title,
         summary |-> item.summary,
         content_html |-> item.content_html,
         publish_date |-> normalize_timestamp(item.publish_date, FALSE, t),
         url |-> item.url,
         url_hash |-> UrlHash(item.url),
         region |-> item.region,
         scraped_at |-> normalize_timestamp(item.scraped_at, TRUE, t),
         metadata |-> to_json(item.metadata),
         content_hash |-> ContentHash(item.title, item.summary, item.content_html),
         updated_at |-> utc_now(t)]

\* The exception insert_record raises before it opens the transaction, ""
\* when there is none.
RaisedBeforeTransaction(item) ==
    IF Falsy(item.url) THEN "ValueError"
    ELSE IF Falsy(item.source) THEN "ValueError"
    ELSE enriched[item].raised

Writers ==
    {"w1", "w2"}

NoWriter ==
    "none"

Idle ==
    [pc |-> "idle"]

NotClassified ==
    [called |-> FALSE]

\* No writer is connected.
NoConnections ==
    /\ conn = [w \in Writers |-> Idle]
    /\ write_lock = NoWriter
    /\ version = 0

\* The classifier of the store: the default rules, not called directly.
DefaultClassifier ==
    /\ classifier = NoCustomRules
    /\ classified = NotClassified

NotMatched ==
    [called |-> FALSE]

\* No call has returned yet.
NothingIngested ==
    [items |-> {}, ever |-> FALSE, intact |-> FALSE, rows |-> 0,
     returned |-> 0, tracked |-> TRUE]

\* A call with `item` that returned `decision` disturbs the entry of an item
\* ingested earlier: it updated the row the entry refers to, or it brought
\* the entry's URL with another content.
Disturbs(item, decision, entry) ==
    \/ decision.status = "updated" /\ decision.record_id = entry.row
    \/ /\ UrlHash(item.url) = UrlHash(entry.item.url)
       /\ ContentHash(item.title, item.summary, item.content_html)
             # ContentHash(entry.item.title, entry.item.summary, entry.item.content_html)

\* The entries after the call: those it disturbs are marked, and the item of
\* a call that returned inserted or duplicate has an intact entry, with the
\* time of its first ingestion since it was last disturbed.
Entries(items, item, decision, t) ==
    {IF Disturbs(item, decision, e) THEN [e EXCEPT !.intact = FALSE] ELSE e :
        e \in {x \in items : x.item # item \/ decision.status = "updated"}}
    \cup (IF decision.status = "updated" THEN {}
          ELSE {[item |-> item, row |-> decision.record_id, intact |-> TRUE,
                 at |-> IF \E x \in items : x.item = item /\ x.intact
                        THEN (CHOOSE x \in items : x.item = item /\ x.intact).at
                        ELSE t]})

\* The history after a call that returned: `ever` and `intact` tell whether
\* its item had been ingested before, and is intact since; `rows` is the
\* number of rows before the call; `returned` counts the calls that
\* returned, and `tracked` tells whether each of them carried the id of an
\* existing ingestion run (`counted`).
Observe(history, item, decision, rows, t, counted) ==
    [items |-> Entries(history.items, item, decision, t),
     ever |-> \E x \in history.items : x.item = item,
     intact |-> \E x \in history.items : x.item = item /\ x.intact,
     rows |-> Len(rows),
     returned |-> history.returned + 1,
     tracked |-> history.tracked /\ counted]

\* The matcher of the store: the default one, not called directly.
StoreMatcher ==
    /\ matcher = DefaultMatcher
    /\ matched = NotMatched

\* CollectorConfig.max_retries
DEFAULT_MAX_RETRIES ==
    3

MaxRetries ==
    2

\* The calls made on one client.
Calls ==
    {"a", "b"}

\* What client.request gives: a response with a status code, or a transport
\* error (httpx.RequestError, httpx.TimeoutException).
Status(code) ==
    [kind |-> "status", code |-> code]

RequestError ==
    [kind |-> "error", code |-> 0]

RuntimeError ==
    [kind |-> "RuntimeError", code |-> 0]

NoError ==
    [kind |-> "none", code |-> 0]

\* response.raise_for_status() raises for every status but 2xx.
IsSuccess(response) ==
    response.kind = "status" /\ response.code >= 200 /\ response.code < 300

\* A client that retries after every error status.
RetryEveryStatus(status_code) ==
    TRUE

\* _should_retry_status
should_retry_status(status_code) ==
    IF status_code >= 500 THEN TRUE ELSE status_code \in {408, 409, 425, 429}

\* The except clauses of the loop: whether the failed attempt is retried.
Retries(response, attempt, max_retries) ==
    IF response.kind = "status"
    THEN should_retry_status(response.code) /\ attempt < max_retries
    ELSE attempt < max_retries

\* A call not made yet.
NotCalled ==
    [pc |-> "idle", via |-> "none", retry_on_failure |-> TRUE, original_retries |-> 0,
     attempts |-> 0, attempt |-> 0, http_requests |-> 0, retry_attempts |-> 0,
     log |-> <<>>, result |-> "none", error |-> NoError]

\* for attempt in range(self.config.max_retries + 1): the range is fixed
\* here; the first attempt is counted and sent.
EnterLoop(call, max_retries) ==
    [call EXCEPT !.attempts = max_retries + 1,
                 !.attempt = 0,
                 !.http_requests = @ + 1,
                 !.pc = "awaiting"]

\* The call ends: the request returned a response or raised.
Finish(call, result, error) ==
    [call EXCEPT !.pc = "done", !.result = result, !.error = error]

\* finally: self.http_client.config.max_retries = original_retries
Restored(call, config) ==
    IF call.via = "fetch_url"
    THEN [config EXCEPT !.max_retries = call.original_retries]
    ELSE config

\* A client configured with max_retries.
Configured(max_retries) ==
    [max_retries |-> max_retries, configured |-> max_retries]

\* No collector is at work.
NoFetches ==
    /\ http_client = Configured(DEFAULT_MAX_RETRIES)
    /\ fetches = [c \in Calls |-> NotCalled]

NoCall ==
    [item |-> None, ingestion_run_id |-> NoId, status |-> "none",
     record_id |-> NoId, duplicate_of |-> NoId, raised |-> "", stage |-> ""]

Init ==
    /\ records = <<>>
    /\ records_fts = {}
    /\ ingestion_runs = <<>>
    /\ clock = 0
    /\ last = NoCall
    /\ NoConnections
    /\ DefaultClassifier
    /\ StoreMatcher
    /\ ingested = NothingIngested
    /\ enriched = [item \in Items |-> enrich_record_fields(item)]
    /\ NoFetches

\* The row start_ingestion_run inserts.
NewRun(id, source, metadata, t) ==
    [id |-> id, source |-> source, started_at |-> utc_now(t), completed_at |-> None,
     status |-> "running", total_records |-> 0, new_records |-> 0,
     updated_records |-> 0, duplicate_records |-> 0, metadata |-> to_json(metadata)]

\* start_ingestion_run
StartIngestionRun(source, metadata) ==
    /\ clock < MaxClock
    /\ Len(ingestion_runs) < MaxRuns
    /\ ingestion_runs' = Append(ingestion_runs,
                                NewRun(Len(ingestion_runs) + 1, source, metadata, clock))
    /\ clock' = clock + 1
    /\ UNCHANGED <<records, records_fts, last, conn, write_lock, version, classifier, classified, enriched, http_client, fetches, matcher, matched, ingested>>

\* complete_ingestion_run
CompleteIngestionRun(run_id, status, metadata) ==
    /\ clock < MaxClock
    /\ ingestion_runs' = [i \in 1..Len(ingestion_runs) |->
           IF ingestion_runs[i].id = run_id
           THEN [ingestion_runs[i] EXCEPT !.status = status,
                                          !.completed_at = utc_now(clock),
                                          !.metadata = Coalesce(to_json(metadata), @)]
           ELSE ingestion_runs[i]]
    /\ clock' = clock + 1
    /\ UNCHANGED <<records, records_fts, last, conn, write_lock, version, classifier, classified, enriched, http_client, fetches, matcher, matched, ingested>>

\* insert_record, as one step: the validation and enrichment, then the
\* transaction with its lookups, its write and its counters.
InsertRecord(item, run_id) ==
    /\ clock < MaxClock
    /\ clock' = clock + 1
    /\ UNCHANGED <<conn, write_lock, version, classifier, classified, enriched, http_client, fetches, matcher, matched>>
    /\ IF RaisedBeforeTransaction(item) # ""
       THEN /\ last' = Raised(item, run_id, RaisedBeforeTransaction(item), "idle")
            /\ UNCHANGED <<records, records_fts, ingestion_runs, ingested>>
       ELSE LET payload == Payload(item, clock)
            IN  \E decision \in Decisions(records, payload) :
                   IF UniqueViolation(records, payload, decision)
                   THEN /\ last' = Raised(item, run_id, "IntegrityError", "selected")
                        /\ UNCHANGED <<records, records_fts, ingestion_runs, ingested>>
                   ELSE /\ records' = ApplyWrite(records, payload, decision, clock)
                        /\ records_fts' = Triggers(records_fts, records, records', decision)
                        /\ ingestion_runs' = CountOutcome(ingestion_runs, run_id, decision.status)
                        /\ last' = Result(item, run_id, decision)
                        /\ ingested' = Observe(ingested, item, decision, records, clock,
                                                \E i \in 1..Len(ingestion_runs) :
                                                    ingestion_runs[i].id = run_id)

Next ==
    \/ \E source \in RunSources, metadata \in {PyNone} : StartIngestionRun(source, metadata)
    \/ \E run_id \in 1..MaxRuns, status \in TerminalStatuses, metadata \in {PyNone} :
          CompleteIngestionRun(run_id, status, metadata)
    \/ \E item \in Items, run_id \in RunIds : InsertRecord(item, run_id)

Spec ==
    Init /\ [][Next]_vars

\* ------------------------------------------------------------------------
\* Concurrent writers: insert_record statement by statement, each writer on
\* its own connection to the same WAL database
\* ------------------------------------------------------------------------

MaxTxnCalls ==
    3

TxnItems ==
    {Item(<<"a","/","1">>, [title |-> <<"M","R">>, summary |-> None, content_html |-> None],
          RSS, None, PyNone, PyNone),
     Item(<<"b","/","2">>, [title |-> <<" ","M","R">>, summary |-> <<>>, content_html |-> <<" ">>],
          RSS, None, PyNone, PyNone),
     Item(<<"a","/","1">>, [title |-> <<"c","l"," ","p","o","c">>, summary |-> <<"k","i","t">>, content_html |-> None],
          RSS, None, PyNone, PyNone),
     Item(<<"a","/","1">>, [title |-> <<"M","R">>, summary |-> None, content_html |-> None],
          <<>>, None, PyNone, PyNone)}

TxnRunIds ==
    {NoId, 1}

\* An end by exception without the rollback: the pending writes of the
\* connection reach the committed tables.
AbortKeepingWrites(w, exception) ==
    /\ conn' = [conn EXCEPT ![w] = Idle]
    /\ write_lock' = IF write_lock = w THEN NoWriter ELSE write_lock
    /\ last' = Raised(conn[w].item, conn[w].run_id, exception, conn[w].pc)
    /\ IF conn[w].pc \in {"written", "counted"}
       THEN /\ records' = conn[w].pending_records
            /\ records_fts' = conn[w].pending_fts
            /\ ingestion_runs' = conn[w].pending_runs
       ELSE UNCHANGED <<records, records_fts, ingestion_runs>>
    /\ UNCHANGED <<clock, version, classifier, classified, enriched, http_client, fetches, matcher, matched, ingested>>

\* The call ends with an exception: the connection's context manager rolls
\* the transaction back, which drops the pending writes and the write lock.
Abort(w, exception) ==
    /\ conn' = [conn EXCEPT ![w] = Idle]
    /\ write_lock' = IF write_lock = w THEN NoWriter ELSE write_lock
    /\ last' = Raised(conn[w].item, conn[w].run_id, exception, conn[w].pc)
    /\ UNCHANGED <<records, records_fts, ingestion_runs, clock, version, classifier, classified, enriched, http_client, fetches, matcher, matched, ingested>>

\* The call up to BEGIN: validation, enrichment and the payload.
Begin(w, item, run_id) ==
    /\ conn[w].pc = "idle"
    /\ clock < MaxTxnCalls
    /\ clock' = clock + 1
    /\ IF RaisedBeforeTransaction(item) # ""
       THEN /\ last' = Raised(item, run_id, RaisedBeforeTransaction(item), "idle")
            /\ UNCHANGED conn
       ELSE /\ conn' = [conn EXCEPT ![w] = [pc |-> "begun", item |-> item, run_id |-> run_id,
                                            payload |-> Payload(item, clock)]]
            /\ UNCHANGED last
    /\ UNCHANGED <<records, records_fts, ingestion_runs, write_lock, version, classifier, classified, enriched, http_client, fetches, matcher, matched, ingested>>

\* The lookups: the first SELECT of the transaction fixes its snapshot of
\* the committed tables, which the second SELECT reads too.
Select(w) ==
    /\ conn[w].pc = "begun"
    /\ \E decision \in Decisions(records, conn[w].payload) :
          conn' = [conn EXCEPT ![w] = [pc |-> "selected", item |-> conn[w].item,
                                       run_id |-> conn[w].run_id,
                                       payload |-> conn[w].payload,
                                       decision |-> decision, snapshot |-> version]]
    /\ UNCHANGED <<records, records_fts, ingestion_runs, clock, last, write_lock, version,
                   classifier, classified, enriched, http_client, fetches, matcher, matched, ingested>>

\* A snapshot is stale once another connection has committed.
AlwaysCurrent(snapshot, committed) ==
    FALSE

StaleSnapshot(snapshot, committed) ==
    snapshot # committed

\* record_id = int(cur.lastrowid): the id of an inserted row is given at the
\* INSERT.
AtWrite(decision, rows) ==
    IF decision.status = "inserted"
    THEN [decision EXCEPT !.record_id = Len(rows) + 1]
    ELSE decision

\* The UPDATE or INSERT: the transaction takes the write lock, which fails
\* with SQLITE_BUSY_SNAPSHOT when its snapshot is stale; the write stays
\* pending until the commit.
Write(w) ==
    /\ conn[w].pc = "selected"
    /\ write_lock = NoWriter
    /\ IF StaleSnapshot(conn[w].snapshot, version)
       THEN Abort(w, "OperationalError")
       ELSE IF UniqueViolation(records, conn[w].payload, AtWrite(conn[w].decision, records))
       THEN Abort(w, "IntegrityError")
       ELSE /\ write_lock' = w
            /\ conn' = [conn EXCEPT ![w] =
                  [pc |-> "written", item |-> conn[w].item, run_id |-> conn[w].run_id,
                   decision |-> AtWrite(conn[w].decision, records),
                   pending_records |-> ApplyWrite(records, conn[w].payload,
                                                  AtWrite(conn[w].decision, records), clock),
                   pending_fts |-> Triggers(records_fts, records,
                                            ApplyWrite(records, conn[w].payload,
                                                AtWrite(conn[w].decision, records), clock),
                                            AtWrite(conn[w].decision, records)),
                   pending_runs |-> ingestion_runs]]
            /\ UNCHANGED <<records, records_fts, ingestion_runs, clock, last, version,
                           classifier, classified, enriched, http_client, fetches, matcher, matched, ingested>>

\* The write lock is held by another connection until the busy timeout.
Busy(w) ==
    /\ conn[w].pc = "selected"
    /\ write_lock \notin {NoWriter, w}
    /\ Abort(w, "OperationalError")

\* The counters of the run, in the same transaction.
Count(w) ==
    /\ conn[w].pc = "written"
    /\ conn' = [conn EXCEPT ![w].pc = "counted",
                            ![w].pending_runs = CountOutcome(@, conn[w].run_id,
                                                             conn[w].decision.status)]
    /\ UNCHANGED <<records, records_fts, ingestion_runs, clock, last, write_lock, version,
                   classifier, classified, enriched, http_client, fetches, matcher, matched, ingested>>

\* conn.commit(): the pending writes become the committed tables.
Commit(w) ==
    /\ conn[w].pc = "counted"
    /\ records' = conn[w].pending_records
    /\ records_fts' = conn[w].pending_fts
    /\ ingestion_runs' = conn[w].pending_runs
    /\ write_lock' = NoWriter
    /\ version' = version + 1
    /\ last' = Result(conn[w].item, conn[w].run_id, conn[w].decision)
    /\ ingested' = Observe(ingested, conn[w].item, conn[w].decision, records, clock,
                            \E i \in 1..Len(conn[w].pending_runs) :
                                conn[w].pending_runs[i].id = conn[w].run_id)
    /\ conn' = [conn EXCEPT ![w] = Idle]
    /\ UNCHANGED <<clock, classifier, classified, enriched, http_client, fetches, matcher, matched>>

\* An exception of a statement inside the transaction.
Fault(w) ==
    /\ conn[w].pc \in {"begun", "selected", "written", "counted"}
    /\ Abort(w, "OperationalError")

\* start_ingestion_run on a connection of its own: one committed INSERT.
OpenRun(source, metadata) ==
    /\ write_lock = NoWriter
    /\ clock < MaxTxnCalls
    /\ Len(ingestion_runs) < 1
    /\ ingestion_runs' = Append(ingestion_runs,
                                NewRun(Len(ingestion_runs) + 1, source, metadata, clock))
    /\ clock' = clock + 1
    /\ version' = version + 1
    /\ UNCHANGED <<records, records_fts, last, conn, write_lock, classifier, classified, enriched, http_client, fetches, matcher, matched, ingested>>

NextTxn ==
    \/ \E source \in RunSources, metadata \in {PyNone} : OpenRun(source, metadata)
    \/ \E w \in Writers, item \in TxnItems, run_id \in TxnRunIds : Begin(w, item, run_id)
    \/ \E w \in Writers : Select(w)
    \/ \E w \in Writers : Write(w)
    \/ \E w \in Writers : Busy(w)
    \/ \E w \in Writers : Count(w)
    \/ \E w \in Writers : Commit(w)
    \/ \E w \in Writers : Fault(w)

SpecTxn ==
    Init /\ [][NextTxn]_vars

\* ------------------------------------------------------------------------
\* A CategoryClassifier of its own, built with custom_rules and called
\* directly
\* ------------------------------------------------------------------------

KitPattern ==
    << <<"k","i","t">> >>

\* The custom_rules a classifier is built with: none, a source rule, a
\* keyword category of its own, more keywords for a built-in category.
CustomRuleSets ==
    {NoCustomRules,
     [sources |-> << <<<<"r","s">>, <<"m","y">>>> >>, keywords |-> <<>>],
     [sources |-> <<>>, keywords |-> << <<<<"m","y">>, <<KitPattern>>>> >>],
     [sources |-> <<>>, keywords |-> << <<CATEGORY_BIDDING, <<KitPattern>>>> >>]}

\* Sources: no rule, one rule, two rules (cninfo before nhc in the table),
\* and a source that is missing.
CatSources ==
    {RSS, <<"c","n","i","n","f","o">>, <<"x">>,
     <<"n","h","c","-","c","n","i","n","f","o">>, None}

\* Titles: no keyword, one category, a custom keyword, and one keyword each of
\* nhsa_policy and financial_reports.
CatTitles ==
    {None, <<"M","R">>, <<"t","e","n","d","e","r">>, <<"k","i","t">>,
     <<"D","R","G"," ","p","r","o","f","i","t">>}

CatSummaries ==
    {None, <<"k","i","t">>, <<"p","r","o","f","i","t">>}

CatContents ==
    {None, <<"p","r","o","f","i","t">>}

CatUrls ==
    {None, <<"a","/","1">>, <<"n","h","c","/","1">>}

\* Metadata: absent, a category, both keys with an override that normalizes,
\* both keys with an override that does not, a category that is not a str,
\* and metadata that is not a dict.
CatMetadata ==
    {PyNone,
     PyDict(<< <<"category", PyStr(<<"F","i","n","a","n","c","e">>)>> >>),
     PyDict(<< <<"category", PyStr(<<"F","i","n","a","n","c","e">>)>>,
               <<"category_override", PyStr(<<"T","e","n","d","e","r">>)>> >>),
     PyDict(<< <<"category_override", PyStr(<<"b","o","g","u","s">>)>>,
               <<"category", PyStr(<<"F","i","n","a","n","c","e">>)>> >>),
     PyDict(<< <<"category", <<"int", 7>> >> >>),
     PyStr(<<"x">>)}

\* The classifier after construction, not called yet; the store is empty.
InitCat ==
    /\ records = <<>>
    /\ records_fts = {}
    /\ ingestion_runs = <<>>
    /\ clock = 0
    /\ last = NoCall
    /\ NoConnections
    /\ classifier \in CustomRuleSets
    /\ classified = NotClassified
    /\ StoreMatcher
    /\ ingested = NothingIngested
    /\ enriched = [item \in Items |-> enrich_record_fields(item)]
    /\ NoFetches

\* categorize: the call and what it returns; `raised` names its exception.
Classified(source, title, summary, content, url, metadata, category) ==
    [called |-> TRUE, source |-> source, title |-> title, summary |-> summary,
     content |-> content, url |-> url, metadata |-> metadata,
     result |-> IF category \in {KeyError, AttributeError} THEN None ELSE category,
     raised |-> IF category \in {KeyError, AttributeError} THEN category[1] ELSE ""]

Categorize(source, title, summary, content, url, metadata) ==
    /\ classified' = Classified(source, title, summary, content, url, metadata,
                                categorize(classifier, source, title, summary, content,
                                           url, metadata))
    /\ UNCHANGED <<records, records_fts, ingestion_runs, clock, last, conn, write_lock, version,
                   classifier, enriched, http_client, fetches, matcher, matched, ingested>>

\* The calls made: <<source, title, summary, content, url, metadata>>.  Every
\* source, URL and metadata with and without a keyword in the title, and
\* every title, summary and body where nothing but the keywords decides.
CatCalls ==
    {<<source, title, None, None, url, metadata>> :
        source \in CatSources, title \in {None, <<"t","e","n","d","e","r">>},
        url \in CatUrls, metadata \in CatMetadata}
    \cup {<<RSS, title, summary, content, None, PyNone>> :
        title \in CatTitles, summary \in CatSummaries, content \in CatContents}

NextCat ==
    \E call \in CatCalls :
        Categorize(call[1], call[2], call[3], call[4], call[5], call[6])

SpecCat ==
    InitCat /\ [][NextCat]_vars

\* ------------------------------------------------------------------------
\* A CompanyMatcher of its own, built with a blacklist or manual overrides
\* and called directly
\* ------------------------------------------------------------------------

\* The matchers built: the default one, one with a company on its blacklist,
\* one with a manual override from the pattern "kit" to the alias "mr".
Matchers ==
    {DefaultMatcher,
     [manual_overrides |-> <<>>, blacklist |-> {<<"M","i","r","a">>},
      partial_threshold |-> DEFAULT_PARTIAL_THRESHOLD],
     [manual_overrides |-> << <<<<"k","i","t">>, <<"m","r">>>> >>, blacklist |-> {},
      partial_threshold |-> DEFAULT_PARTIAL_THRESHOLD]}

\* Body texts: an alias and a name, a piece of a name (fuzzy), two keywords
\* of a company, an override pattern, three keywords of a company of which
\* another company lists one, that one keyword alone.
MatchTexts ==
    {None, <<"M","R"," ","A","n","t","o">>, <<"a","n","t">>,
     <<"c","l"," ","p","o","c">>, <<"k","i","t">>,
     <<"e","c","g"," ","m","o","n"," ","p","o","c">>, <<"p","o","c">>}

MatchTitles ==
    {None, <<"M","R">>}

StrList(names) ==
    PyList([i \in 1..Len(names) |-> PyStr(names[i])])

\* Metadata of the matcher's keys, well formed.
MatchMetadata ==
    {PyNone,
     PyDict(<< <<"company_blacklist", StrList(<< <<"m","i","n","d">> >>)>> >>),
     PyDict(<< <<"company_blacklist", StrList(<< <<"A","n","t","o">> >>)>>,
               <<"company_hints", StrList(<< <<"a","b">> >>)>> >>),
     PyDict(<< <<"company_blacklist", StrList(<< <<"M","i","r","a">> >>)>>,
               <<"company_overrides", PyDict(<< <<PyStr(<<"K","i","t">>), PyStr(<<"m","r">>)>> >>)>> >>),
     PyDict(<< <<"company_blacklist_terms", StrList(<< <<"m","r">> >>)>> >>),
     PyDict(<< <<"company_blacklist_terms", StrList(<< <<"m","r">> >>)>>,
               <<"company_hints", StrList(<< <<"M","i","r","a">> >>)>> >>),
     PyDict(<< <<"company_blacklist_terms", StrList(<< <<"k","i","t">> >>)>>,
               <<"company_hints", StrList(<< <<"M","i","r","a">> >>)>> >>),
     PyDict(<< <<"company_hints", StrList(<< <<"a","b">>, <<"Z","e","d">> >>)>> >>),
     PyDict(<< <<"company_overrides", PyDict(<< <<PyStr(<<"K","i","t">>), PyStr(<<"a","b">>)>> >>)>> >>),
     PyDict(<< <<"companies_override", StrList(<< <<"m","r">> >>)>>,
               <<"company_blacklist", StrList(<< <<"M","i","r","a">> >>)>> >>)}

\* Metadata that is malformed: not a dict, overrides that are not a dict,
\* hints that are not a list, elements and keys that are not str.
MalformedMetadata ==
    {PyStr(<<"x">>),
     PyDict(<< <<"company_overrides", StrList(<< <<"x">> >>)>> >>),
     PyDict(<< <<"company_hints", <<"int", 5>> >> >>),
     PyDict(<< <<"company_blacklist", PyList(<< <<"int", 1>> >>)>>,
               <<"company_blacklist_terms", PyStr(<<"m","r">>)>> >>),
     PyDict(<< <<"company_overrides", PyDict(<< <<PyStr(<<"k","i","t">>), <<"int", 5>> >> >>)>> >>),
     PyDict(<< <<"company_overrides", PyDict(<< << <<"int", 1>>, PyStr(<<"M","i","r","a">>)>> >>)>> >>)}

\* Identifiers: the name, English name and alias of one company in several
\* cases, the alias of another, a name the directory does not know.
Identifiers ==
    {<<"M","i","r","a">>, <<"m","I","N","D">>, <<"M","R">>, <<"m","r">>,
     <<"a","b">>, <<"Z","e","d">>}

MaxNames ==
    2

\* The lists of identifiers normalize_names is called with: every list up to
\* MaxNames, and lists of three with repeats.
NameLists ==
    UNION {[1..n -> Identifiers] : n \in 0..MaxNames}
    \cup {<<a, b, a>> : a \in Identifiers, b \in Identifiers}

\* The matcher after construction, not called yet; the store is empty.
InitMatch ==
    /\ records = <<>>
    /\ records_fts = {}
    /\ ingestion_runs = <<>>
    /\ clock = 0
    /\ last = NoCall
    /\ NoConnections
    /\ DefaultClassifier
    /\ matcher \in Matchers
    /\ matched = NotMatched
    /\ ingested = NothingIngested
    /\ enriched = [item \in Items |-> enrich_record_fields(item)]
    /\ NoFetches

\* A call of the matcher and what it returns; `raised` names its exception.
Matched(op, text, title, summary, metadata, given, result) ==
    [called |-> TRUE, op |-> op, text |-> text, title |-> title, summary |-> summary,
     metadata |-> metadata, given |-> given,
     names |-> result.names, raised |-> result.raised]

MatchCompanies(text, title, summary, metadata) ==
    /\ matched' = Matched("match_companies", text, title, summary, metadata, <<>>,
                          match_companies(matcher, text, title, summary, metadata))
    /\ UNCHANGED <<records, records_fts, ingestion_runs, clock, last, conn, write_lock,
                   version, classifier, classified, enriched, http_client, fetches, matcher, ingested>>

NormalizeNames(names) ==
    /\ matched' = Matched("normalize_names", None, None, None, PyNone, names,
                          [raised |-> "", names |-> normalize_names(names)])
    /\ UNCHANGED <<records, records_fts, ingestion_runs, clock, last, conn, write_lock,
                   version, classifier, classified, enriched, http_client, fetches, matcher, ingested>>

NextMatch ==
    \/ \E text \in MatchTexts, title \in MatchTitles,
          metadata \in MatchMetadata \cup MalformedMetadata :
             MatchCompanies(text, title, None, metadata)
    \/ \E names \in NameLists : NormalizeNames(names)

SpecMatch ==
    InitMatch /\ [][NextMatch]_vars

\* ------------------------------------------------------------------------
\* The HTTP client: one call of request_sync or request_async
\* ------------------------------------------------------------------------

\* The responses of a server: success, error statuses that are retried and
\* that are not, and a transport error.
Responses ==
    {Status(200), Status(404), Status(408), Status(409), Status(425), Status(429),
     Status(499), Status(500), Status(503), RequestError}

StoreUntouched ==
    UNCHANGED <<records, records_fts, ingestion_runs, clock, last, conn, write_lock,
                version, classifier, classified, enriched, matcher, matched, ingested>>

InitHttp ==
    /\ records = <<>>
    /\ records_fts = {}
    /\ ingestion_runs = <<>>
    /\ clock = 0
    /\ last = NoCall
    /\ NoConnections
    /\ DefaultClassifier
    /\ StoreMatcher
    /\ ingested = NothingIngested
    /\ enriched = [item \in Items |-> enrich_record_fields(item)]
    /\ http_client \in {Configured(m) : m \in 0..MaxRetries}
    /\ fetches = [c \in Calls |-> NotCalled]

\* request_sync, request_async: up to the first client.request.
Request(c, via) ==
    /\ fetches[c].pc = "idle"
    /\ fetches' = [fetches EXCEPT ![c] = EnterLoop([@ EXCEPT !.via = via],
                                                   http_client.max_retries)]
    /\ UNCHANGED http_client
    /\ StoreUntouched

\* client.request returns or raises: the response is returned, or the
\* attempt is retried after a sleep, or the error is raised.
Respond(c, response) ==
    /\ fetches[c].pc = "awaiting"
    /\ LET call == [fetches[c] EXCEPT !.log = Append(@, response)]
       IN  IF IsSuccess(response)
           THEN /\ fetches' = [fetches EXCEPT ![c] = Finish(call, "returned", NoError)]
                /\ http_client' = Restored(call, http_client)
           ELSE IF Retries(response, call.attempt, http_client.max_retries)
           THEN /\ fetches' = [fetches EXCEPT ![c] =
                                  [call EXCEPT !.retry_attempts = @ + 1, !.pc = "sleeping"]]
                /\ UNCHANGED http_client
           ELSE /\ fetches' = [fetches EXCEPT ![c] = Finish(call, "raised", response)]
                /\ http_client' = Restored(call, http_client)
    /\ StoreUntouched

\* The sleep ends: the next attempt of the range is counted and sent; after
\* the last of the range the loop ends and RuntimeError is raised.
Wake(c) ==
    /\ fetches[c].pc = "sleeping"
    /\ IF fetches[c].attempt + 1 < fetches[c].attempts
       THEN /\ fetches' = [fetches EXCEPT ![c] =
                              [@ EXCEPT !.attempt = @ + 1, !.http_requests = @ + 1,
                                        !.pc = "awaiting"]]
            /\ UNCHANGED http_client
       ELSE /\ fetches' = [fetches EXCEPT ![c] = Finish(@, "raised", RuntimeError)]
            /\ http_client' = Restored(fetches[c], http_client)
    /\ StoreUntouched

NextHttp ==
    \/ \E via \in {"request_sync", "request_async"} : Request("a", via)
    \/ \E response \in Responses : Respond("a", response)
    \/ Wake("a")

SpecHttp ==
    InitHttp /\ [][NextHttp]_vars

\* client.request returns or raises within the timeouts of the client, and
\* a sleep ends after at most retry_max_delay.
FairHttp ==
    SpecHttp /\ WF_vars(NextHttp)

\* ------------------------------------------------------------------------
\* The collector: concurrent calls of fetch_url on one client
\* ------------------------------------------------------------------------

FetchResponses ==
    {Status(200), Status(404), Status(503), RequestError}

InitFetch ==
    /\ records = <<>>
    /\ records_fts = {}
    /\ ingestion_runs = <<>>
    /\ clock = 0
    /\ last = NoCall
    /\ NoConnections
    /\ DefaultClassifier
    /\ StoreMatcher
    /\ ingested = NothingIngested
    /\ enriched = [item \in Items |-> enrich_record_fields(item)]
    /\ http_client \in {Configured(m) : m \in 1..MaxRetries}
    /\ fetches = [c \in Calls |-> NotCalled]

\* fetch_url up to the first client.request of get_async: the override of
\* max_retries, then the loop of request_async.
FetchUrl(c, retry_on_failure) ==
    /\ fetches[c].pc = "idle"
    /\ http_client' = [http_client EXCEPT !.max_retries =
                          IF retry_on_failure THEN @ ELSE 0]
    /\ fetches' = [fetches EXCEPT ![c] =
                      EnterLoop([@ EXCEPT !.via = "fetch_url",
                                          !.retry_on_failure = retry_on_failure,
                                          !.original_retries = http_client.max_retries],
                                IF retry_on_failure THEN http_client.max_retries ELSE 0)]
    /\ StoreUntouched

NextFetch ==
    \/ \E c \in Calls, retry_on_failure \in BOOLEAN : FetchUrl(c, retry_on_failure)
    \/ \E c \in Calls, response \in FetchResponses : Respond(c, response)
    \/ \E c \in Calls : Wake(c)

SpecFetch ==
    InitFetch /\ [][NextFetch]_vars

\* ------------------------------------------------------------------------
\* Properties of insert_record
\* ------------------------------------------------------------------------

ItemUrlHash(item) ==
    UrlHash(item.url)

ItemContentHash(item) ==
    ContentHash(item.title, item.summary, item.content_html)

\* The step is an insert_record call that reached its transaction; the call
\* and its outcome are last'.
Called ==
    /\ last'.status # "none"
    /\ RaisedBeforeTransaction(last'.item) = ""
    /\ InsertRecord(last'.item, last'.ingestion_run_id)

\* Exactly one row has the item's URL fingerprint: row id, with the item's
\* content fingerprint.
OneRowFor(rows, item, id) ==
    /\ ByUrlHash(rows, ItemUrlHash(item)) = {id}
    /\ rows[id].content_hash = ItemContentHash(item)

\* The previous call ingested the same item: it inserted its row, or found
\* it again under its URL.
SameItemAgain ==
    /\ last.status \in {"inserted", "duplicate"}
    /\ last.item = last'.item
    /\ records[last.record_id].url_hash = ItemUrlHash(last.item)

\* C1: an insert_record call with an item whose URL and content fingerprints
\* no row has returns inserted and leaves exactly one row for the item; every
\* call that repeats the item of the call before it returns duplicate, with
\* duplicate_of and record_id the id the earlier call returned, and still
\* exactly that one row.
IdempotentInsert ==
    [][Called =>
          /\ (/\ ByUrlHash(records, ItemUrlHash(last'.item)) = {}
              /\ ByContentHash(records, ItemContentHash(last'.item)) = {})
             => /\ last'.status = "inserted"
                /\ Len(records') = Len(records) + 1
                /\ OneRowFor(records', last'.item, last'.record_id)
          /\ SameItemAgain
             => /\ last'.status = "duplicate"
                /\ last'.duplicate_of = last.record_id
                /\ last'.record_id = last.record_id
                /\ Len(records') = Len(records)
                /\ OneRowFor(records', last'.item, last.record_id)]_vars

\* The last call found, under its URL, the row an earlier call with the same
\* URL and content had created.
SeenAgain ==
    /\ last.status = "duplicate"
    /\ last.duplicate_of = last.record_id
    /\ records[last.record_id].url = last.item.url
    /\ records[last.record_id].content_hash = ItemContentHash(last.item)
    /\ records[last.record_id].created_at # records[last.record_id].updated_at
    /\ Cardinality(ByUrlHash(records, ItemUrlHash(last.item))) = 1

\* C2: a call with an item whose URL fingerprint no row has and whose content
\* fingerprint some row has returns duplicate, with duplicate_of a row that
\* carries the content, and creates no row.
CrossUrlDuplicate ==
    [][(/\ Called
        /\ ByUrlHash(records, ItemUrlHash(last'.item)) = {}
        /\ ByContentHash(records, ItemContentHash(last'.item)) # {})
       => /\ last'.status = "duplicate"
          /\ last'.duplicate_of \in ByContentHash(records, ItemContentHash(last'.item))
          /\ last'.record_id = last'.duplicate_of
          /\ Len(records') = Len(records)]_vars

\* The last call was a duplicate of a row stored under another URL.
DuplicateAcrossUrls ==
    /\ last.status = "duplicate"
    /\ records[last.duplicate_of].url_hash # ItemUrlHash(last.item)
    /\ records[last.duplicate_of].content_hash = ItemContentHash(last.item)
    /\ ByUrlHash(records, ItemUrlHash(last.item)) = {}

\* C3: a call with an item whose URL fingerprint a row has, with a content
\* fingerprint other than the item's, returns updated with that row's id and
\* creates no row; afterwards the row's title, summary, body, source, source
\* type and region are the item's, its metadata is the item's as JSON (NULL
\* for none), its category, companies and publish date are those derived
\* from the item alone, and its content fingerprint is the item's; no other
\* row changes.
UpdateOverwrites ==
    [][last'.status # "none" => \A id \in ByUrlHash(records, ItemUrlHash(last'.item)) :
          (records[id].content_hash # ItemContentHash(last'.item) /\ Called)
          => /\ last'.status = "updated"
             /\ last'.record_id = id
             /\ Len(records') = Len(records)
             /\ records'[id].title = last'.item.title
             /\ records'[id].summary = last'.item.summary
             /\ records'[id].content_html = last'.item.content_html
             /\ records'[id].source = last'.item.source
             /\ records'[id].source_type = last'.item.source_type
             /\ records'[id].region = last'.item.region
             /\ records'[id].metadata = to_json(last'.item.metadata)
             /\ records'[id].content_hash = ItemContentHash(last'.item)
             /\ records'[id].category = enriched[last'.item].category
             /\ records'[id].companies = Payload(last'.item, clock).companies
             /\ records'[id].publish_date
                   = normalize_timestamp(last'.item.publish_date, FALSE, clock)
             /\ \A other \in 1..Len(records) :
                   other # id => records'[other] = records[other]]_vars

\* The last call updated a row that had metadata with an item that has none.
UpdatedRow ==
    /\ last.status = "updated"
    /\ last.item.metadata = PyNone
    /\ records[last.record_id].metadata = None
    /\ records[last.record_id].created_at # records[last.record_id].updated_at
    /\ records[last.record_id].title = last.item.title

\* C4: no two rows have the same url_hash.
UrlHashUnique ==
    \A i, j \in 1..Len(records) :
        records[i].url_hash = records[j].url_hash => i = j

\* Two rows are stored, and the last call updated one of them.
TwoRowsAfterUpdate ==
    /\ Len(records) >= 2
    /\ last.status = "updated"

\* ------------------------------------------------------------------------
\* Properties of concurrent writers
\* ------------------------------------------------------------------------

\* C5: every row that reaches the committed table is the only row of its
\* step, and no committed row had its URL fingerprint or its content
\* fingerprint: a writer that looked the item up before another writer's
\* commit does not insert on what it saw then.
NoDoubleInsert ==
    [][Len(records') > Len(records)
       => /\ Len(records') = Len(records) + 1
          /\ ByUrlHash(records, records'[Len(records')].url_hash) = {}
          /\ ByContentHash(records, records'[Len(records')].content_hash) = {}
          /\ \A i \in 1..Len(records) : records'[i] = records[i]]_vars

\* A writer found nothing and is about to insert, and meanwhile another
\* writer has committed a row with the same content.
StaleInsertPending ==
    \E w \in Writers :
        /\ conn[w].pc = "selected"
        /\ conn[w].decision.status = "inserted"
        /\ conn[w].snapshot # version
        /\ ByContentHash(records, conn[w].payload.content_hash) # {}
        /\ last.status = "inserted"

\* ------------------------------------------------------------------------
\* Properties of the run counters
\* ------------------------------------------------------------------------

Counters(run) ==
    <<run.total_records, run.new_records, run.updated_records, run.duplicate_records>>

Plus(status, counters) ==
    <<counters[1] + 1,
      counters[2] + (IF status = "inserted" THEN 1 ELSE 0),
      counters[3] + (IF status = "updated" THEN 1 ELSE 0),
      counters[4] + (IF status = "duplicate" THEN 1 ELSE 0)>>

\* C6: an insert_record call that returns adds one to total_records and one
\* to the counter of its status, for the run it names and for no other run,
\* in the step that writes the row; and in every state every run has
\* total_records = new_records + updated_records + duplicate_records.
RunCounters ==
    /\ [](\A r \in 1..Len(ingestion_runs) :
             ingestion_runs[r].total_records
                = ingestion_runs[r].new_records + ingestion_runs[r].updated_records
                  + ingestion_runs[r].duplicate_records)
    /\ [][(Called /\ last'.status # "raised")
          => /\ Len(ingestion_runs') = Len(ingestion_runs)
             /\ records' # records
             /\ \A r \in 1..Len(ingestion_runs) :
                   Counters(ingestion_runs'[r])
                      = IF r = last'.ingestion_run_id
                        THEN Plus(last'.status, Counters(ingestion_runs[r]))
                        ELSE Counters(ingestion_runs[r])]_vars

\* A run has counted an insert, an update and a duplicate.
OneOfEach ==
    \E r \in 1..Len(ingestion_runs) :
        Counters(ingestion_runs[r]) = <<3, 1, 1, 1>>

\* ------------------------------------------------------------------------
\* Properties of failing calls
\* ------------------------------------------------------------------------

\* The step ends a call with an exception: at the validation, or inside the
\* transaction of a writer.
CallFails ==
    /\ last'.status = "raised"
    /\ \/ clock' # clock /\ conn' = conn /\ version' = version
       \/ \E w \in Writers : conn[w].pc # "idle" /\ conn'[w] = Idle /\ version' = version

\* C7: a step that ends an insert_record call with an exception, at the
\* validation or anywhere inside the transaction, leaves the committed
\* records and ingestion runs as they were.
FailureAtomicity ==
    [][CallFails => (records' = records /\ ingestion_runs' = ingestion_runs)]_vars

\* The last call failed after its INSERT and its counter update, and the
\* table has no row for its item and the run has counted nothing.
FailedAfterWrite ==
    /\ last.status = "raised"
    /\ last.stage = "counted"
    /\ last.ingestion_run_id # NoId
    /\ ByUrlHash(records, ItemUrlHash(last.item)) = {}
    /\ Len(ingestion_runs) = 1
    /\ Counters(ingestion_runs[1]) = <<0, 0, 0, 0>>

\* ------------------------------------------------------------------------
\* Properties of the stored category and companies
\* ------------------------------------------------------------------------

\* C8: every value a classifier returns, whatever custom_rules it was built
\* with, is one of the seven categories of the enumeration.
ClosedCategorySet ==
    (classified.called /\ classified.raised = "") => classified.result \in CategoryEnum

\* The name is, whatever its case, the name, the English name or an alias of
\* a company of the directory.
Recognised(name) ==
    \E i \in 1..Len(DIRECTORY) :
        \/ Lower(name) = Lower(DIRECTORY[i].name)
        \/ Truthy(DIRECTORY[i].english_name) /\ Lower(name) = Lower(DIRECTORY[i].english_name)
        \/ \E a \in Range(DIRECTORY[i].aliases) : Lower(name) = Lower(a)

ExplicitCategoryQueryable ==
    (last.status = "inserted" /\ Truthy(last.item.category))
        => last.record_id \in get_records_by_category(records, last.item.category)

\* ------------------------------------------------------------------------
\* Properties of categorize
\* ------------------------------------------------------------------------

\* The call of categorize returned.
Returned ==
    classified.called /\ classified.raised = ""

\* The rule table of the classifier applied to one text, None for no text.
RuleFor(text) ==
    IF Truthy(text) THEN FirstRule(SourceRules(classifier), text) ELSE None

\* The first applicable of the six steps, in their order.
Precedence(override, category, bySource, byUrl, byKeywords) ==
    IF override # None THEN override
    ELSE IF category # None THEN category
    ELSE IF bySource # None THEN bySource
    ELSE IF byUrl # None THEN byUrl
    ELSE IF byKeywords # None THEN byKeywords
    ELSE CATEGORY_INDUSTRY_MEDIA

\* C11: a call of categorize that returns gives the category of the first
\* applicable step: metadata category_override, metadata category, the first
\* rule in the source, the first rule in the URL, the keyword scoring,
\* industry_media.
DecisionOrder ==
    Returned =>
        classified.result =
            Precedence(MetadataValue(MetadataDict(classified.metadata), "category_override"),
                       MetadataValue(MetadataDict(classified.metadata), "category"),
                       RuleFor(classified.source),
                       RuleFor(classified.url),
                       categorize_by_keywords_weighted(classifier, classified.title,
                           classified.summary, classified.content))

\* A call without metadata where the source and the URL have rules of
\* different categories and the title has keywords: the source decided.
SourceBeforeUrl ==
    /\ Returned
    /\ classified.metadata = PyNone
    /\ RuleFor(classified.source) # None
    /\ RuleFor(classified.url) \notin {None, RuleFor(classified.source)}
    /\ classified.title = <<"t","e","n","d","e","r">>
    /\ classified.result = RuleFor(classified.source)

\* Neither the metadata nor a rule in the source or the URL decides.
NoEarlierStep ==
    /\ MetadataCategory(MetadataDict(classified.metadata)) = None
    /\ RuleFor(classified.source) = None
    /\ RuleFor(classified.url) = None

\* The categories that share the highest score, when it is positive.
Tied(scores) ==
    {ALL_CATEGORIES[i] : i \in {k \in 1..Len(scores) :
        scores[k] > 0 /\ \A j \in 1..Len(scores) : scores[j] <= scores[k]}}

\* The first entry of an order that is in a set.
FirstInOrder(order, among) ==
    order[CHOOSE i \in 1..Len(order) :
              order[i] \in among /\ \A j \in 1..(i - 1) : order[j] \notin among]

TieBrokenByDisplay(tied) ==
    Cardinality(tied) >= 2 => classified.result = FirstInOrder(CATEGORY_ORDER, tied)

\* C12: when the keywords decide and several categories tie for the highest
\* positive score, categorize returns the tied category that is first in the
\* display order nhsa_policy, nhc_policy, financial_reports, product_launches,
\* bidding_tendering, industry_media.
TieInDisplayOrder ==
    (Returned /\ NoEarlierStep) =>
        TieBrokenByDisplay(Tied(CategoryScores(ALL_CATEGORIES, KeywordRules(classifier),
            classified.title, classified.summary, classified.content)))

\* The matches of a pattern in a field, none in a field that is absent.
Matches(alts, text) ==
    IF Truthy(text) THEN FindallCount(alts, text, 1) ELSE 0

\* 5 x title + 3 x summary + 1 x body, summed over the patterns.
RECURSIVE WeightedSum(_, _, _, _)
WeightedSum(patterns, title, summary, content) ==
    IF patterns = <<>> THEN 0
    ELSE 5 * Matches(patterns[1], title) + 3 * Matches(patterns[1], summary)
         + Matches(patterns[1], content)
         + WeightedSum(Tail(patterns), title, summary, content)

\* The score of a category for the call made.
ScoreOf(category) ==
    WeightedSum(PatternsOf(KeywordRules(classifier), category),
                classified.title, classified.summary, classified.content)

\* C13: when neither metadata nor a source or URL rule decides, categorize
\* returns a category whose score, 5 x title + 3 x summary + 1 x body matches
\* over its patterns, is positive and no lower than any other, and
\* industry_media when every score is zero.
WeightedScoring ==
    (Returned /\ NoEarlierStep) =>
        IF \A c \in Range(ALL_CATEGORIES) : ScoreOf(c) = 0
        THEN classified.result = CATEGORY_INDUSTRY_MEDIA
        ELSE /\ classified.result \in Range(ALL_CATEGORIES)
             /\ ScoreOf(classified.result) > 0
             /\ \A c \in Range(ALL_CATEGORIES) : ScoreOf(c) <= ScoreOf(classified.result)

\* One bidding keyword in the title against financial keywords in the summary
\* and the body: the title's weight decides.
TitleOutweighs ==
    /\ Returned
    /\ NoEarlierStep
    /\ ScoreOf(CATEGORY_BIDDING) = 5
    /\ ScoreOf(CATEGORY_FINANCIAL) = 4
    /\ classified.result = CATEGORY_BIDDING

\* C14: a classifier with the built-in rules returns from every call of
\* categorize, whatever the metadata, the source and the text fields.
ClassifierNeverRaises ==
    (classified.called /\ classifier = NoCustomRules) => classified.raised = ""

\* ------------------------------------------------------------------------
\* Properties of the company matcher
\* ------------------------------------------------------------------------

\* The metadata of the call as the dict match_companies works on.
MatchedMetadata ==
    MetadataDict(matched.metadata)

\* A call of match_companies that returned from the stages, not from a
\* companies_override.
StagesReturned ==
    /\ matched.called
    /\ matched.op = "match_companies"
    /\ matched.raised = ""
    /\ NormalizedOverride(DictGet(MatchedMetadata, "companies_override")) = <<>>

\* The str items of a metadata value that is a list, none otherwise.
ListItems(value) ==
    IF IsList(value) THEN Range(StrItems(value)) ELSE {}

\* An identifier refers to a company: it is, ignoring case, its name, its
\* English name or one of its aliases.
RefersTo(identifier, company) ==
    \/ Lower(identifier) = Lower(company.name)
    \/ company.english_name # None /\ Lower(identifier) = Lower(company.english_name)
    \/ \E i \in 1..Len(company.aliases) : Lower(identifier) = Lower(company.aliases[i])

\* The canonical name an identifier stands for, the identifier itself when
\* the directory has no such company.
Canon(identifier) ==
    IF \E i \in 1..Len(DIRECTORY) : RefersTo(identifier, DIRECTORY[i])
    THEN DIRECTORY[CHOOSE i \in 1..Len(DIRECTORY) : RefersTo(identifier, DIRECTORY[i])].name
    ELSE identifier

\* C15: a call of match_companies that is not short-circuited by
\* companies_override returns no company of the name-level blacklist: the
\* matcher's blacklist and the metadata's company_blacklist, canonicalized.
NameBlacklistExcludes ==
    StagesReturned =>
        \A n \in Range(matched.names) :
            n \notin {Canon(entry) : entry \in matcher.blacklist
                          \cup ListItems(DictGet(MatchedMetadata, "company_blacklist"))}

\* The matches of the stages before the text blacklist is applied.
Unfiltered ==
    RunStages(matcher, combine_text(matched.text, matched.title, matched.summary),
              PatternOverrides(matcher, MatchedMetadata), {},
              NameBlacklist(DictGet(MatchedMetadata, "company_blacklist")),
              DictGet(MatchedMetadata, "company_hints")).matches

\* The span of a match is clean: it contains no term, ignoring case.
CleanSpan(match, terms) ==
    \A term \in terms : ~Contains(Lower(match.matched_text), Lower(term))

CleanMatches(matches, terms) ==
    {n \in DOMAIN matches : CleanSpan(matches[n], terms)}

\* C16: a call of match_companies that is not short-circuited returns the
\* companies the stages matched through a span that contains no term of the
\* text-level blacklist (the matcher's blacklist and the metadata's
\* company_blacklist_terms), and no other.
TextBlacklistFilters ==
    StagesReturned =>
        Range(matched.names) =
            CleanMatches(Unfiltered, matcher.blacklist
                \cup ListItems(DictGet(MatchedMetadata, "company_blacklist_terms")))

\* A body with a blacklisted alias and the name of another company: the
\* other company alone is returned.
AliasFilteredNameKept ==
    /\ StagesReturned
    /\ matched.text = <<"M","R"," ","A","n","t","o">>
    /\ DictGet(MatchedMetadata, "company_blacklist_terms") = StrList(<< <<"m","r">> >>)
    /\ DOMAIN Unfiltered = {<<"M","i","r","a">>, <<"A","n","t","o">>}
    /\ matched.names = << <<"A","n","t","o">> >>

\* The first place of a canonical name among the identifiers given.
FirstSeen(name, given) ==
    CHOOSE i \in 1..Len(given) :
        Canon(given[i]) = name /\ \A j \in 1..(i - 1) : Canon(given[j]) # name

\* C17: normalize_names returns the canonical name alone for identifiers of
\* one company; in general it returns each canonical name once, in
\* first-seen order, and normalizing its result again gives the same list.
CanonicalOnce ==
    (matched.called /\ matched.op = "normalize_names") =>
        /\ \A c \in Range(DIRECTORY) :
              (matched.given # <<>> /\ \A i \in 1..Len(matched.given) :
                                          RefersTo(matched.given[i], c))
                  => matched.names = <<c.name>>
        /\ Range(matched.names) = {Canon(g) : g \in Range(matched.given)}
        /\ \A i, j \in 1..Len(matched.names) :
              i < j => /\ matched.names[i] # matched.names[j]
                       /\ FirstSeen(matched.names[i], matched.given)
                             < FirstSeen(matched.names[j], matched.given)
        /\ normalize_names(matched.names) = matched.names

\* Three identifiers of one company, two of them different: one name.
OneCompanyOneName ==
    /\ matched.called
    /\ matched.op = "normalize_names"
    /\ Len(matched.given) = 3
    /\ matched.given[1] # matched.given[2]
    /\ \A i \in 1..3 : RefersTo(matched.given[i], DIRECTORY[1])
    /\ matched.names = <<DIRECTORY[1].name>>

\* C18: match_companies returns a list of names from every call, whatever
\* the metadata.
MatcherNeverRaises ==
    (matched.called /\ matched.op = "match_companies") => matched.raised = ""

\* ------------------------------------------------------------------------
\* Properties of the full-text index
\* ------------------------------------------------------------------------

\* C19: the committed full-text index holds exactly one entry per committed
\* row of records, keyed by the row id, with the row's current title, summary
\* and body; no state shows a row without its entry or an entry of old text.
IndexMirrorsRecords ==
    /\ records_fts = {IndexEntry(records[i]) : i \in 1..Len(records)}
    /\ Cardinality(records_fts) = Len(records)

\* A committed update: the index carries the new title of the row and no
\* entry of the old one.
IndexFollowsUpdate ==
    /\ last.status = "updated"
    /\ records[last.record_id].title = last.item.title
    /\ IndexEntry(records[last.record_id]) \in records_fts
    /\ \A e \in records_fts : e[1] = last.record_id => e[2] = last.item.title

\* ------------------------------------------------------------------------
\* Properties of repeated ingestion
\* ------------------------------------------------------------------------

\* The last call of insert_record returned.
LastReturned ==
    last.status \in {"inserted", "updated", "duplicate"}

Content(row) ==
    [id |-> row.id, source |-> row.source, source_type |-> row.source_type,
     category |-> row.category, companies |-> row.companies, title |-> row.title,
     summary |-> row.summary, content_html |-> row.content_html,
     publish_date |-> row.publish_date, url |-> row.url, url_hash |-> row.url_hash,
     content_hash |-> row.content_hash, region |-> row.region,
     created_at |-> row.created_at]

\* C21: a call that returns duplicate, by its URL with the same content or
\* by its content under another URL, leaves the source, source type,
\* category, companies, title, summary, body, publish date, url, url_hash,
\* content_hash and region of the target row as they were, whatever the
\* item carries; it adds no row and changes no other row.
DuplicateKeepsContent ==
    [][(Called /\ last'.status = "duplicate")
       => /\ Len(records') = Len(records)
          /\ last'.record_id \in 1..Len(records)
          /\ Content(records'[last'.record_id]) = Content(records[last'.record_id])
          /\ \A other \in 1..Len(records) :
                other # last'.record_id => records'[other] = records[other]]_vars

\* The last call was a duplicate whose item differs from the target row in
\* url, title and category, and the row was refreshed by it.
DuplicateOfDifferentItem ==
    /\ last.status = "duplicate"
    /\ records[last.record_id].url # last.item.url
    /\ records[last.record_id].title # last.item.title
    /\ records[last.record_id].category # enriched[last.item].category
    /\ records[last.record_id].updated_at # records[last.record_id].created_at
    /\ Len(records) >= 2

\* The keys of a stored JSON object, none for NULL.
StoredKeys(stored) ==
    IF stored = None THEN {}
    ELSE IF stored[2][1] # "object" THEN {}
    ELSE DOMAIN stored[2][2]

\* C22: after a call that returns duplicate with an item that carries
\* metadata, the stored metadata of the target row has every key it had
\* before and the item's value for every key of the item; with an item
\* that carries none, the stored metadata is as it was.
MetadataMergedOnDuplicate ==
    [][(Called /\ last'.status = "duplicate")
       => LET before == records[last'.record_id].metadata
              after == records'[last'.record_id].metadata
              given == to_json(last'.item.metadata)
          IN  IF given = None
              THEN after = before
              ELSE /\ StoredKeys(before) \subseteq StoredKeys(after)
                   /\ \A k \in StoredKeys(given) : after[2][2][k] = given[2][2][k]]_vars

\* ------------------------------------------------------------------------
\* Properties of the matcher's stages
\* ------------------------------------------------------------------------

\* The matches after each stage, in the order of match_companies.
WithHints(overridden, hints, name_blacklist) ==
    <<overridden, StageHints(overridden, hints, name_blacklist)>>

WithExact(tables, combined_text, name_blacklist) ==
    Append(tables, StageExact(tables[Len(tables)], combined_text, name_blacklist))

WithAliases(tables, combined_text, name_blacklist) ==
    Append(tables, StageAliases(tables[Len(tables)], combined_text, name_blacklist))

WithKeywords(tables, combined_text, name_blacklist) ==
    Append(tables, StageKeywords(tables[Len(tables)], combined_text, name_blacklist))

WithFuzzy(matcher_, tables, combined_text, name_blacklist) ==
    Append(tables, StageFuzzy(matcher_, tables[Len(tables)], combined_text, name_blacklist))

StageTables(matcher_, combined_text, overrides, name_blacklist, hints) ==
    WithFuzzy(matcher_,
        WithKeywords(
            WithAliases(
                WithExact(
                    WithHints(StageOverrides(combined_text, overrides, name_blacklist),
                              hints, name_blacklist),
                    combined_text, name_blacklist),
                combined_text, name_blacklist),
            combined_text, name_blacklist),
        combined_text, name_blacklist)

\* The stage tables of the call in `matched`.
MatchedTables ==
    StageTables(matcher, combine_text(matched.text, matched.title, matched.summary),
                PatternOverrides(matcher, MatchedMetadata).table,
                NameBlacklist(DictGet(MatchedMetadata, "company_blacklist")),
                DictGet(MatchedMetadata, "company_hints"))

\* Every stage keeps the match of every company the stage before it had,
\* and the companies it had.
FirstMatchKept(tables) ==
    \A k \in 1..(Len(tables) - 1) :
        /\ DOMAIN tables[k] \subseteq DOMAIN tables[k + 1]
        /\ \A n \in DOMAIN tables[k] : tables[k + 1][n] = tables[k][n]

\* C23: in a call of match_companies the stages run in the order pattern
\* override, hint, exact, alias, keyword, fuzzy; the match a stage
\* registered for a company (type, score and span) is the match every later
\* stage has for it, and the companies of a stage are companies of every
\* later stage.
StagePrecedence ==
    StagesReturned => FirstMatchKept(MatchedTables)

\* The keywords of a company that occur in a text, ignoring case.
OwnKeywords(company, text) ==
    {Lower(company.keywords[i]) : i \in {j \in 1..Len(company.keywords) :
                                            Contains(Lower(text), Lower(company.keywords[j]))}}

\* The keywords of company i that no later company of the directory lists.
Attributed(i, keywords) ==
    {k \in keywords : \A j \in (i + 1)..Len(DIRECTORY) :
                          \A l \in 1..Len(DIRECTORY[j].keywords) :
                              Lower(DIRECTORY[j].keywords[l]) # k}

\* The matches of the keyword stage, by company.
KeywordStage(found) ==
    [n \in {found[i].company_name : i \in 1..Len(found)} |->
        found[CHOOSE i \in 1..Len(found) : found[i].company_name = n]]

\* The keyword stage credits a company only on two or more of its keywords
\* in the text, with score min(70 + 5n, 90) for the n keywords counted for
\* it; a company kept through its keywords has two or more in the text.
CreditedOnTwo(credited, kept, text, counted_all) ==
    \A i \in 1..Len(DIRECTORY) :
        LET own == OwnKeywords(DIRECTORY[i], text)
            n == Cardinality(IF counted_all THEN own ELSE Attributed(i, own))
        IN  /\ DIRECTORY[i].name \in DOMAIN credited
               => /\ Cardinality(own) >= 2
                  /\ credited[DIRECTORY[i].name].score = Min(70 + 5 * n, 90)
                  /\ credited[DIRECTORY[i].name].match_type = "keyword"
            /\ (Cardinality(own) < 2 /\ DIRECTORY[i].name \in DOMAIN kept)
               => kept[DIRECTORY[i].name].match_type # "keyword"

\* The keyword matches of the call in `matched`.
MatchedKeywords ==
    KeywordStage(match_keywords(combine_text(matched.text, matched.title, matched.summary),
                                NameBlacklist(DictGet(MatchedMetadata, "company_blacklist"))))

\* C24 as stated: n is the number of the company's keywords in the text.
KeywordThresholdAllCounted ==
    StagesReturned =>
        CreditedOnTwo(MatchedKeywords, MatchedTables[6],
                      combine_text(matched.text, matched.title, matched.summary), TRUE)

\* C24: the keyword stage credits a company only if two or more distinct
\* keywords of the company occur in the combined text, with score
\* min(70 + 5n, 90) where n counts the keywords of the company in the text
\* that no later company of the directory lists; a company with a single
\* keyword in the text is not returned through its keywords.
KeywordThreshold ==
    StagesReturned =>
        CreditedOnTwo(MatchedKeywords, MatchedTables[6],
                      combine_text(matched.text, matched.title, matched.summary), FALSE)

\* Three keywords of a company, one of them also another company's: the
\* company is returned through the keyword stage, and the other is not.
ThreeKeywordsCredited ==
    /\ StagesReturned
    /\ matched.text = <<"e","c","g"," ","m","o","n"," ","p","o","c">>
    /\ matched.title = None
    /\ matched.names = << <<"M","i","r","a">> >>
    /\ MatchedTables[6][<<"M","i","r","a">>].match_type = "keyword"
    /\ MatchedTables[6][<<"M","i","r","a">>].score = 80

\* ------------------------------------------------------------------------
\* Properties of the ledger of runs and of the stored fingerprints
\* ------------------------------------------------------------------------

\* C25: a run starts with status running and all counters zero; no step
\* lowers a counter; and no step changes the status, the completion
\* timestamp or a counter of a run that has a terminal status.
RunClosedOnce ==
    [][/\ \A i \in 1..Len(ingestion_runs') :
             i > Len(ingestion_runs)
             => /\ ingestion_runs'[i].status = "running"
                /\ Counters(ingestion_runs'[i]) = <<0, 0, 0, 0>>
       /\ \A i \in 1..Len(ingestion_runs) :
             /\ \A k \in 1..4 :
                   Counters(ingestion_runs'[i])[k] >= Counters(ingestion_runs[i])[k]
             /\ ingestion_runs[i].status \in TerminalStatuses
                => /\ ingestion_runs'[i].status = ingestion_runs[i].status
                   /\ ingestion_runs'[i].completed_at = ingestion_runs[i].completed_at
                   /\ Counters(ingestion_runs'[i]) = Counters(ingestion_runs[i])]_vars

\* C28: every row's url_hash is the fingerprint of its url, trimmed and in
\* lower case, and its content_hash is the fingerprint of its title, summary
\* and content_html, trimmed, with none as empty.
FingerprintsConsistent ==
    \A i \in 1..Len(records) :
        /\ records[i].url_hash = hash_text(normalise_url(records[i].url))
        /\ records[i].content_hash
              = ContentHash(records[i].title, records[i].summary, records[i].content_html)

\* The last call updated a row created under another spelling of the URL:
\* the row has the item's spelling and content, and the url_hash it had.
UpdatedUnderOtherSpelling ==
    /\ last.status = "updated"
    /\ records[last.record_id].url = last.item.url
    /\ records[last.record_id].url # normalise_url(last.item.url)
    /\ records[last.record_id].title = last.item.title
    /\ records[last.record_id].created_at # records[last.record_id].updated_at

\* get_ingestion_metrics: the sum of a counter over the runs.
RECURSIVE SumCounters(_, _)
SumCounters(ledger, k) ==
    IF ledger = <<>> THEN 0
    ELSE Counters(ledger[1])[k] + SumCounters(Tail(ledger), k)

\* C29: as long as every insert_record call that returned carried the id of
\* an existing ingestion run, the new_records of all runs add up to the
\* number of rows, and the total_records to the number of calls that
\* returned.
LedgerAgrees ==
    ingested.tracked =>
        /\ SumCounters(ingestion_runs, 2) = Len(records)
        /\ SumCounters(ingestion_runs, 1) = ingested.returned

\* Three calls returned, each for an existing run, the last as a duplicate.
ThreeCallsCounted ==
    /\ ingested.tracked
    /\ ingested.returned = 3
    /\ last.status = "duplicate"
    /\ SumCounters(ingestion_runs, 1) = 3
    /\ SumCounters(ingestion_runs, 2) = Len(records)

\* ------------------------------------------------------------------------
\* Properties of get_records_by_company
\* ------------------------------------------------------------------------

\* _extract_date on a str: the text before the first "T".
RECURSIVE extract_date(_)
extract_date(value) ==
    IF value = <<>> THEN <<>>
    ELSE IF value[1] = "T" THEN <<>>
    ELSE <<value[1]>> \o extract_date(Tail(value))

\* The filters of get_records_by_company, each when its argument is truthy.
CompanyFilters(start_date, end_date, categories) ==
    (IF Truthy(start_date) THEN <<<<"d","a","t","e","(","p","u","b","l","i","s","h","_","d","a","t","e",")"," ",">","="," ","?">>>> ELSE <<>>)
    \o (IF Truthy(end_date) THEN <<<<"d","a","t","e","(","p","u","b","l","i","s","h","_","d","a","t","e",")"," ","<","="," ","?">>>> ELSE <<>>)
    \o (IF categories # None /\ categories # <<>>
        THEN <<<<"c","a","t","e","g","o","r","y"," ","I","N"," ","(">> \o Join(<<",">>, [i \in 1..Len(categories) |-> <<"?">>])
               \o <<")">>>>
        ELSE <<>>)

\* " ".join(query), with "WHERE" + " AND ".join(filters) when there are
\* filters.
CompanyQuery(filters) ==
    Join(<<" ">>,
         <<<<"S","E","L","E","C","T"," ","*"," ","F","R","O","M"," ","r","e","c","o","r","d","s">>>>
         \o (IF filters # <<>>
             THEN <<<<"W","H","E","R","E">> \o Join(<<" ","A","N","D"," ">>, filters)>>
             ELSE <<>>))

\* The words of a statement, split at spaces.
RECURSIVE SqlWords(_, _)
SqlWords(text, word) ==
    IF text = <<>> THEN (IF word = <<>> THEN <<>> ELSE <<word>>)
    ELSE IF text[1] = " "
    THEN (IF word = <<>> THEN <<>> ELSE <<word>>) \o SqlWords(Tail(text), <<>>)
    ELSE SqlWords(Tail(text), Append(word, text[1]))

\* conn.execute accepts SELECT * FROM records alone or followed by the
\* keyword WHERE; another word after the table name is a syntax error.
Accepted(words) ==
    Len(words) = 4 \/ words[5] = <<"W","H","E","R","E">>

\* date(publish_date) of a row, None for NULL.
PublishDay(row) ==
    IF row.publish_date = None THEN None ELSE extract_date(row.publish_date)

\* The WHERE clause of the filters on a row; a comparison with NULL selects
\* nothing.
Selected(row, start_date, end_date, categories) ==
    /\ Truthy(start_date)
       => PublishDay(row) # None /\ ~StrLess(PublishDay(row), extract_date(start_date))
    /\ Truthy(end_date)
       => PublishDay(row) # None /\ ~StrLess(extract_date(end_date), PublishDay(row))
    /\ (categories # None /\ categories # <<>>)
       => \E i \in 1..Len(categories) : row.category = categories[i]

\* get_records_by_company: the rows the statement selects whose companies
\* hold the company, ignoring case; or the exception of the statement.
get_records_by_company(rows, company, start_date, end_date, categories) ==
    IF ~Accepted(SqlWords(CompanyQuery(CompanyFilters(start_date, end_date, categories)), <<>>))
    THEN [raised |-> "OperationalError", ids |-> {}]
    ELSE [raised |-> "",
          ids |-> {i \in 1..Len(rows) :
                     /\ Selected(rows[i], start_date, end_date, categories)
                     /\ Lower(company) \in {Lower(c) : c \in StoredCompanies(rows[i])}}]

\* The arguments of the queries: companies in several cases, days around
\* none, category lists.
QueryCompanies ==
    {<<"m","i","r","a">>, <<"A","N","T","O">>, <<"A","c","m","e">>}

QueryDays ==
    {None, <<"2","0","2","4","-","0","1","-","0","2">>, <<"2","0","2","4","-","0","1","-","0","2","T","0","0",":","0","0",":","0","0","Z">>}

QueryCategories ==
    {None, <<>>, <<CATEGORY_INDUSTRY_MEDIA>>, <<CATEGORY_FINANCIAL, CATEGORY_UNKNOWN>>}

\* The rows a company query is to return: the company is among the row's
\* companies, ignoring case, the publish day is in the range given, and the
\* category is one of those given.
Wanted(rows, company, start_date, end_date, categories) ==
    {i \in 1..Len(rows) :
        /\ \E c \in StoredCompanies(rows[i]) : Lower(c) = Lower(company)
        /\ start_date # None
           => rows[i].publish_date # None
              /\ ~StrLess(extract_date(rows[i].publish_date), extract_date(start_date))
        /\ end_date # None
           => rows[i].publish_date # None
              /\ ~StrLess(extract_date(end_date), extract_date(rows[i].publish_date))
        /\ (categories # None /\ categories # <<>>)
           => rows[i].category \in Range(categories)}

\* C26: for every choice of start_date, end_date and categories, given or
\* not, get_records_by_company returns without an exception, and returns
\* the rows whose companies hold the company, ignoring case, whose publish
\* day is in the range and whose category is among the categories.
CompanyQueryFilters ==
    \A company \in QueryCompanies, start_date \in QueryDays, end_date \in QueryDays,
       categories \in QueryCategories :
        get_records_by_company(records, company, start_date, end_date, categories)
           = [raised |-> "", ids |-> Wanted(records, company, start_date, end_date, categories)]

\* The queries without a filter return the rows of the company.
CompanyQueryUnfiltered ==
    \A company \in QueryCompanies, categories \in {None, <<>>} :
        get_records_by_company(records, company, None, None, categories)
           = [raised |-> "", ids |-> Wanted(records, company, None, None, categories)]

\* ------------------------------------------------------------------------
\* Properties of the HTTP client and of fetch_url
\* ------------------------------------------------------------------------

\* A failed attempt that may be retried: a transport error, a status of 500
\* or more, or one of 408, 409, 425, 429.
Retryable(response) ==
    \/ response.kind = "error"
    \/ response.kind = "status"
       /\ (response.code >= 500 \/ response.code \in {408, 409, 425, 429})

AllRetryable(log, n) ==
    \A i \in 1..n : Retryable(log[i])

\* The bounds and counters of one call under a client with max_retries.
RetryInvariant(call, max_retries) ==
    LET k == Len(call.log)
    IN  /\ call.http_requests <= max_retries + 1
        /\ call.http_requests = k + (IF call.pc = "awaiting" THEN 1 ELSE 0)
        /\ call.pc = "awaiting"
           => call.retry_attempts = k /\ AllRetryable(call.log, k)
        /\ call.pc = "sleeping"
           => call.retry_attempts = k /\ AllRetryable(call.log, k) /\ k <= max_retries
        /\ (call.pc = "done" /\ call.result = "returned")
           => /\ call.log[k].kind = "status" /\ call.log[k].code = 200
              /\ AllRetryable(call.log, k - 1)
              /\ call.http_requests = k
              /\ call.retry_attempts = k - 1
        /\ (call.pc = "done" /\ call.result = "raised")
           => /\ call.error = call.log[k]
              /\ ~IsSuccess(call.log[k])
              /\ AllRetryable(call.log, k - 1)
              /\ call.retry_attempts = k - 1
              /\ Retryable(call.log[k]) => k = max_retries + 1

\* C27: a call of request_sync or request_async makes at most
\* max_retries + 1 attempts and ends; it returns the first successful
\* response; it retries only after a transport error or a status of 500 or
\* more or one of 408, 409, 425, 429; it raises the last error when the
\* attempts are used up, or at once on another error status; http_requests
\* counts the attempts and retry_attempts the retries, so a success on
\* attempt k leaves http_requests = k and retry_attempts = k - 1.
BoundedRetry ==
    /\ [](\A c \in Calls : RetryInvariant(fetches[c], http_client.max_retries))
    /\ \A c \in Calls : (fetches[c].pc # "idle") ~> (fetches[c].pc = "done")

\* A call returned on its third attempt, after an error status and a
\* transport error.
ReturnedOnThirdAttempt ==
    /\ fetches["a"].pc = "done"
    /\ fetches["a"].result = "returned"
    /\ fetches["a"].log = <<Status(503), RequestError, Status(200)>>
    /\ fetches["a"].http_requests = 3
    /\ fetches["a"].retry_attempts = 2

\* C30: among concurrent calls of fetch_url on one collector, a call made
\* with retry_on_failure has the configured number of retries (its loop has
\* max_retries + 1 attempts, and it gives up on a failure that may be
\* retried only after all of them), whatever calls are made without; and
\* when every call has ended, max_retries is the configured value.
NoRetryLeak ==
    /\ \A c \in Calls :
          (fetches[c].pc # "idle" /\ fetches[c].retry_on_failure)
          => /\ fetches[c].attempts = http_client.configured + 1
             /\ (fetches[c].result = "raised" /\ fetches[c].error # RuntimeError
                    /\ Retryable(fetches[c].error))
                => Len(fetches[c].log) = http_client.configured + 1
             /\ fetches[c].error # RuntimeError
    /\ (\A c \in Calls : fetches[c].pc = "done")
       => http_client.max_retries = http_client.configured
====
